---- MODULE Spec2Model ----
(***************************************************************************)
(* Model of the /analyze pipeline of the bureau-parser-api repository.     *)
(*                                                                         *)
(* The repository holds nine historical variants of the /analyze handler   *)
(* (src/server.js holds three, src/unnamed/part_003 three, part_000,       *)
(* part_001 and part_002 one each).  A variant is named after the file and *)
(* the line of its app.post("/analyze", ...) call.  One server process     *)
(* runs one variant; the model chooses it in Init.                         *)
(*                                                                         *)
(* A handler is an async function: it runs atomically between its await    *)
(* points (pdf(), performOcrOnPdf(), analyzeWithAI(),                      *)
(* computeSanctionTotalActiveWithAI()).  Each action of the model is one   *)
(* such synchronous segment, started by the arrival of the request or by   *)
(* the reply of the awaited collaborator.                                  *)
(***************************************************************************)
EXTENDS Integers, Sequences, FiniteSets, TLC

(***************************************************************************)
(* JavaScript values.  A value is a record of one shape so that values of  *)
(* different JavaScript types can be compared: k is the type tag, n the    *)
(* number (numbers only), s the characters (strings only; a string is a    *)
(* sequence of one-character strings).                                     *)
(***************************************************************************)
JsNum(n) == [k |-> "num", n |-> n, s |-> <<>>]
JsStr(s) == [k |-> "str", n |-> 0, s |-> s]
JsUndef == [k |-> "undef", n |-> 0, s |-> <<>>]
JsNull == [k |-> "null", n |-> 0, s |-> <<>>]
JsNaN == [k |-> "nan", n |-> 0, s |-> <<>>]

\* !v is false: the values JavaScript treats as true in `if (v)` and `v || w`.
Truthy(v) ==
    CASE v.k = "num" -> v.n # 0
      [] v.k = "str" -> v.s # <<>>
      [] OTHER -> FALSE

\* v || w
JsOr(v, w) == IF Truthy(v) THEN v ELSE w

\* v == null (true of null and undefined)
IsNullish(v) == v.k \in {"undef", "null"}

DigitChars == {"0", "1", "2", "3", "4", "5", "6", "7", "8", "9"}

DigitVal(c) ==
    CASE c = "0" -> 0 [] c = "1" -> 1 [] c = "2" -> 2 [] c = "3" -> 3
      [] c = "4" -> 4 [] c = "5" -> 5 [] c = "6" -> 6 [] c = "7" -> 7
      [] c = "8" -> 8 [] c = "9" -> 9

DigitChar(d) ==
    CASE d = 0 -> "0" [] d = 1 -> "1" [] d = 2 -> "2" [] d = 3 -> "3"
      [] d = 4 -> "4" [] d = 5 -> "5" [] d = 6 -> "6" [] d = 7 -> "7"
      [] d = 8 -> "8" [] d = 9 -> "9"

\* The value of a sequence of decimal digits.
RECURSIVE DigitsToNat(_)
DigitsToNat(s) ==
    IF s = <<>> THEN 0
    ELSE 10 * DigitsToNat(SubSeq(s, 1, Len(s) - 1)) + DigitVal(s[Len(s)])

\* The decimal digits of a natural number.
RECURSIVE NatToDigits(_)
NatToDigits(n) ==
    IF n < 10 THEN <<DigitChar(n)>>
    ELSE NatToDigits(n \div 10) \o <<DigitChar(n % 10)>>

\* String(v) with the sign of a number left out.
JsStringUnsigned(v) ==
    CASE v.k = "str" -> v.s
      [] v.k = "num" -> NatToDigits(IF v.n < 0 THEN 0 - v.n ELSE v.n)
      [] v.k = "undef" -> <<"u", "n", "d", "e", "f", "i", "n", "e", "d">>
      [] v.k = "null" -> <<"n", "u", "l", "l">>
      [] OTHER -> <<"N", "a", "N">>

\* String(v) for the values the model passes to parseAmount.
JsString(v) ==
    CASE v.k = "str" -> v.s
      [] v.k = "num" ->
           IF v.n < 0 THEN <<"-">> \o NatToDigits(0 - v.n) ELSE NatToDigits(v.n)
      [] v.k = "undef" -> <<"u", "n", "d", "e", "f", "i", "n", "e", "d">>
      [] v.k = "null" -> <<"n", "u", "l", "l">>
      [] OTHER -> <<"N", "a", "N">>

\* The longest prefix of s made of digits.
RECURSIVE DigitPrefix(_)
DigitPrefix(s) ==
    IF s = <<>> \/ Head(s) \notin DigitChars THEN <<>>
    ELSE <<Head(s)>> \o DigitPrefix(Tail(s))

IsWhite(c) == c \in {" ", "\n"}

\* s.trim()
RECURSIVE TrimLeft(_)
TrimLeft(s) == IF s # <<>> /\ IsWhite(Head(s)) THEN TrimLeft(Tail(s)) ELSE s

RECURSIVE TrimRight(_)
TrimRight(s) ==
    IF s # <<>> /\ IsWhite(s[Len(s)]) THEN TrimRight(SubSeq(s, 1, Len(s) - 1)) ELSE s

Trim(s) == TrimRight(TrimLeft(s))

(***************************************************************************)
(* parseFloat on a string without a decimal point or an exponent (the      *)
(* model's alphabet has neither): leading white space is skipped, then an  *)
(* optional sign and the longest run of digits are read; NaN when there is *)
(* no digit there.                                                         *)
(***************************************************************************)
parseFloat(s) ==
    LET t == TrimLeft(s)
        neg == t # <<>> /\ Head(t) = "-"
        body == IF neg THEN Tail(t) ELSE t
        digits == DigitPrefix(body)
    IN  IF digits = <<>> THEN JsNaN
        ELSE JsNum((IF neg THEN -1 ELSE 1) * DigitsToNat(digits))

\* Number.isFinite(num) ? num : 0, as a number of the model.
FiniteOrZero(v) == IF v.k = "num" THEN v.n ELSE 0

\* String(str).replace(/[^0-9.-]/g, "")
StripNonNumeric(s) == SelectSeq(s, LAMBDA c : c \in DigitChars \cup {".", "-"})

(***************************************************************************)
(* parseAmount, first form (server.js:25 and :1203, part_001:25,           *)
(* part_002:19, part_003:259): every character that is not a digit, a dot  *)
(* or a minus is deleted, then parseFloat reads the rest.                  *)
(***************************************************************************)
parseAmountStrip(v) ==
    IF ~Truthy(v) THEN 0
    ELSE FiniteOrZero(parseFloat(StripNonNumeric(JsString(v))))

\* The first match of /-?\d+/ in s: the suffix of s that starts at the match, or
\* <<>> when nothing matches.
RECURSIVE FirstNumberAt(_)
FirstNumberAt(s) ==
    IF s = <<>> THEN <<>>
    ELSE IF Head(s) \in DigitChars THEN s
    ELSE IF Head(s) = "-" /\ Len(s) > 1 /\ s[2] \in DigitChars THEN s
    ELSE FirstNumberAt(Tail(s))

(***************************************************************************)
(* parseAmount, second form (server.js:433, part_003:850): the first       *)
(* substring matching /-?\d+(\.\d+)?/ is read; commas are not removed, so  *)
(* the match ends at the first comma.  Only when the string holds no digit *)
(* at all is the first form's deletion used, and it then finds no number.  *)
(***************************************************************************)
parseAmountFirst(v) ==
    IF IsNullish(v) THEN 0
    ELSE LET s == Trim(JsString(v))
             m == FirstNumberAt(s)
         IN  IF m # <<>> THEN FiniteOrZero(parseFloat(m))
             ELSE FiniteOrZero(parseFloat(StripNonNumeric(s)))

(***************************************************************************)
(* The variants of the handler and what distinguishes them.                 *)
(***************************************************************************)
Variants ==
    {"server_322", "server_839", "server_1463", "part1_442", "part2_304",
     "part3_146", "part3_550", "part3_1250", "part0_14"}

\* The variants that begin with `if (!req.file) return res.json(...)`.
ChecksFile(v) == v \notin {"part3_146", "part0_14"}

\* The variants that call performOcrOnPdf at all.
HasOcr(v) == v # "part0_14"

\* The variants that call analyzeWithAI.
HasInterpreter(v) == v \notin {"part2_304", "part0_14"}

\* The variants that call computeSanctionTotalActiveWithAI.
HasSanctionAI(v) == v \in {"server_322", "part1_442"}

(***************************************************************************)
(* How the OCR call is wrapped: "bare" has no try around it (an OCR error  *)
(* reaches the handler's outer catch), "fatal" catches the error and sends *)
(* a failure response, "soft" catches it and keeps the native text.        *)
(***************************************************************************)
OcrPolicy(v) ==
    CASE v = "server_322" -> "bare"
      [] v \in {"server_1463", "part1_442", "part3_146"} -> "fatal"
      [] OTHER -> "soft"

\* The variants whose analyzeWithAI call has its own try/catch.
AiGuarded(v) == v \in {"server_839", "server_1463", "part1_442", "part3_550", "part3_1250"}

\* The variants whose fs.unlinkSync in the finally block has its own try/catch.
UnlinkGuarded(v) == v \notin {"server_322", "part0_14"}

\* The HTTP status of the outer catch's response (res.status(500) or the default).
CatchStatus(v) ==
    IF v \in {"server_1463", "part1_442", "part3_146", "part0_14"} THEN 500 ELSE 200

\* The parseAmount each variant defines.
parseAmount(v, x) ==
    IF v \in {"server_839", "part3_1250"} THEN parseAmountFirst(x) ELSE parseAmountStrip(x)

\* The trimmed length below which OCR is attempted, and the one below which the
\* document is unreadable; OCR text is adopted above the latter.
OcrThreshold == 300
UnreadableFloor == 100

\* The longest run of non-digits the anchor pattern allows between the phrase and
\* the number: [^\d]{0,30}, and [^\d]{0,20} in server.js:1249.
AnchorGap(v) == IF v = "server_1463" THEN 20 ELSE 30

\* The messages of the responses.
NoFileMsg(v) ==
    IF v \in {"server_1463", "part1_442"} THEN "No PDF received." ELSE "No PDF provided"

OcrFailMsg(v) ==
    IF v = "part3_146"
    THEN "We could not read this report automatically. Please upload the original PDF downloaded from the credit bureau website (not a photo or screenshot)."
    ELSE "OCR failed. Please upload the original bureau PDF (not a photo or screenshot)."

UnreadableMsg(v) ==
    CASE v = "server_322" -> "Unreadable PDF"
      [] v \in {"server_1463", "part1_442"} ->
           "Unreadable PDF. Please upload a clearer report downloaded directly from the bureau."
      [] v = "part3_146" ->
           "We could not extract enough text from this report. Please upload a clearer PDF directly downloaded from the bureau."
      [] OTHER -> "Unreadable PDF. Please upload the original bureau report downloaded as PDF."

\* "AI parsing error: " + msg; the text of msg is the collaborator's.
AiErrorMsg == "AI parsing error: "

CatchMsg == "Error parsing PDF"

SuccessMsg(v) ==
    CASE v = "server_322" -> "Parsed OK"
      [] v = "part2_304" -> "PDF parsed successfully (rule-based, no AI)"
      [] v = "part3_146" -> "PDF parsed successfully by AI"
      [] OTHER -> "PDF parsed successfully"

\* A response: what res.json / res.status(..).json sends.  result is <<>> when
\* the body has no result key, <<record>> when it has one.
Failure(status, msg) ==
    [status |-> status, success |-> FALSE, message |-> msg, result |-> <<>>]

Success(msg, rec) ==
    [status |-> 200, success |-> TRUE, message |-> msg, result |-> <<rec>>]

(***************************************************************************)
(* Documents.  The text of a document is described by what the handler     *)
(* reads from it: len is text.trim().length; cap is the [\d,]+ group       *)
(* printed after the first anchor phrase ("Total Current Bal. amt" or      *)
(* "Total Current Balance"), <<>> when the text has no anchor phrase; gap  *)
(* is the number of non-digit characters between the phrase and that       *)
(* group; rows holds, for each line below a "Sanction Amt / Highest        *)
(* Credit" header that has a number token, the last such token; score is   *)
(* the three digits printed after "<bureau> score", <<>> when the text has *)
(* no such phrase.  The sample documents hold no "SUMMARY: CREDIT ACCOUNT  *)
(* INFORMATION" or "CREDIT ENQUIRIES" section and no line with a loan      *)
(* keyword.                                                                *)
(***************************************************************************)
Text(len, gap, cap, rows, score) ==
    [len |-> len, gap |-> gap, cap |-> cap, rows |-> rows, score |-> score]

EmptyText == Text(0, 0, <<>>, <<>>, <<>>)

\* The anchors of the sample documents: none, or a gap and a printed number.
SampleAnchors ==
    {<<0, <<>>>>, <<1, <<"0">>>>, <<1, <<"1", ",", "2">>>>, <<25, <<"1", ",", "2">>>>}

\* The table and score of the sample documents: neither, or both.
SampleBodies ==
    {<<<<>>, <<>>>>, << <<<<"7", ",", "5", "0">>>>, <<"7", "5", "0">> >>}

\* The texts pdf() may give.
SampleTexts ==
    {EmptyText} \cup
    {Text(l, a[1], a[2], b[1], b[2]) :
        l \in {UnreadableFloor - 1, UnreadableFloor, OcrThreshold - 1, OcrThreshold},
        a \in SampleAnchors, b \in SampleBodies}

\* The texts performOcrOnPdf() may give.
SampleOcrTexts ==
    {EmptyText,
     Text(UnreadableFloor - 1, 1, <<"1", ",", "2">>, <<>>, <<>>),
     Text(UnreadableFloor, 1, <<"1", ",", "2">>, <<>>, <<>>),
     Text(UnreadableFloor + 1, 0, <<>>, <<>>, <<>>),
     Text(OcrThreshold, 1, <<"1", ",", "2">>, <<<<"7", ",", "5", "0">>>>, <<"7", "5", "0">>)}

\* Reduced sets for the runs with several requests in flight.
FewTexts ==
    {Text(UnreadableFloor - 1, 0, <<>>, <<>>, <<>>),
     Text(OcrThreshold - 1, 1, <<"0">>, <<>>, <<>>),
     Text(OcrThreshold, 1, <<"1", ",", "2">>, <<<<"7", ",", "5", "0">>>>, <<"7", "5", "0">>)}

FewOcrTexts == {Text(OcrThreshold, 0, <<>>, <<<<"7", ",", "5", "0">>>>, <<"7", "5", "0">>)}

(***************************************************************************)
(* Extraction results.  A result record has the keys of the response's     *)
(* result: score and enquiryCount are JavaScript values, dpd a string ("", *)
(* when the key is missing), totals is <<>> when the key is missing and    *)
(* <<t>> otherwise, with t's four fields JavaScript values (JsUndef for a  *)
(* missing one); loans and enquiries are <<>> when the key is missing or   *)
(* not an array and <<list>> otherwise.  A loan is [line, details], with   *)
(* details <<>> when missing and <<d>> otherwise.                          *)
(***************************************************************************)
Totals(ls, lo, cl, co) ==
    [loanSanctioned |-> ls, loanOutstanding |-> lo, cardLimit |-> cl, cardOutstanding |-> co]

ZeroTotals == Totals(JsNum(0), JsNum(0), JsNum(0), JsNum(0))

\* ai.totals = {}
NoFieldTotals == Totals(JsUndef, JsUndef, JsUndef, JsUndef)

Result(score, enquiryCount, dpd, totals, loans, enquiries) ==
    [score |-> score, enquiryCount |-> enquiryCount, dpd |-> dpd, totals |-> totals,
     loans |-> loans, enquiries |-> enquiries]

DefaultDpd == "0 - Clean"

\* The replies of the interpreter in the sample runs: a complete record with the
\* given loan totals, and a record with every key missing.
FullReply(lo, ls) ==
    Result(JsNum(750), JsNum(2), "Overdues in 1 account(s)",
           <<Totals(JsNum(ls), JsNum(lo), JsNum(3), JsNum(4))>>,
           << << [line |-> "HDFC Bank Home Loan", details |-> <<>>] >> >>,
           << << "HDFC enquiry" >> >>)

BareReply == Result(JsUndef, JsUndef, "", <<>>, <<>>, <<>>)

\* An outcome of analyzeWithAI's request: ok is FALSE when the call throws (an
\* API error, a timeout, output that is not JSON).
AiOutcome(ok, reply) == [ok |-> ok, reply |-> reply]

SampleAiOutcomes ==
    {AiOutcome(FALSE, BareReply), AiOutcome(TRUE, BareReply)} \cup
    {AiOutcome(TRUE, FullReply(lo, ls)) : lo \in {0, 9}, ls \in {0, 8}}

FewAiOutcomes ==
    {AiOutcome(FALSE, BareReply), AiOutcome(TRUE, FullReply(9, 8))}

\* An outcome of computeSanctionTotalActiveWithAI: the number in the reply, or a throw.
SanctionOutcome(ok, n) == [ok |-> ok, n |-> n]

SampleSanctionOutcomes ==
    {SanctionOutcome(FALSE, JsNum(0)), SanctionOutcome(TRUE, JsNum(0)),
     SanctionOutcome(TRUE, JsNum(6))}

FewSanctionOutcomes == {SanctionOutcome(FALSE, JsNum(0)), SanctionOutcome(TRUE, JsNum(6))}

\* An outcome of pdf() or of performOcrOnPdf(): the text, or a throw.
TextOutcome(ok, text) == [ok |-> ok, text |-> text]

\* typeof x === "number" ? x : 0
NumberOrZero(x) == IF x.k \in {"num", "nan"} THEN x ELSE JsNum(0)

\* x ?? d
Coalesce(x, d) == IF IsNullish(x) THEN d ELSE x

\* parsed.totals.f = parseAmount(parsed.totals.f), for the four fields.
ParseTotals(v, t) ==
    Totals(JsNum(parseAmount(v, t.loanSanctioned)), JsNum(parseAmount(v, t.loanOutstanding)),
           JsNum(parseAmount(v, t.cardLimit)), JsNum(parseAmount(v, t.cardOutstanding)))

\* ({ ...l, details: l.details || {} }); the variants that rebuild details run
\* every numeric leaf through parseAmount.
NormalizeLoan(v, l) ==
    [l EXCEPT !.details =
        IF v \in {"server_839", "part3_1250"}
        THEN <<[sanctionAmount |->
                  JsNum(parseAmount(v, IF l.details = <<>> THEN JsUndef
                                       ELSE l.details[1].sanctionAmount))]>>
        ELSE IF l.details = <<>> THEN <<[sanctionAmount |-> JsUndef]>> ELSE l.details]

NormalizeLoans(v, loans) ==
    IF loans = <<>> THEN << <<>> >>
    ELSE IF v \in {"server_1463", "part3_146"} THEN loans
    ELSE << [i \in 1..Len(loans[1]) |-> NormalizeLoan(v, loans[1][i])] >>

(***************************************************************************)
(* What analyzeWithAI does to the parsed reply before it returns it.       *)
(***************************************************************************)
NormalizeReply(v, p) ==
    CASE v = "server_322" ->
           [p EXCEPT !.score = JsOr(p.score, JsNum(0)),
                     !.enquiryCount = JsOr(p.enquiryCount, JsNum(0)),
                     !.dpd = IF p.dpd = "" THEN DefaultDpd ELSE p.dpd]
      [] v = "part3_146" ->
           [p EXCEPT !.score = Coalesce(p.score, JsNull),
                     !.enquiryCount = Coalesce(p.enquiryCount, JsNum(0)),
                     !.dpd = IF p.dpd = "" THEN DefaultDpd ELSE p.dpd,
                     !.totals = IF p.totals = <<>> THEN <<ZeroTotals>> ELSE p.totals,
                     !.loans = NormalizeLoans(v, p.loans)]
      [] OTHER ->
           [p EXCEPT !.score = NumberOrZero(p.score),
                     !.enquiryCount = NumberOrZero(p.enquiryCount),
                     !.dpd = IF p.dpd = "" THEN DefaultDpd ELSE p.dpd,
                     !.totals = <<ParseTotals(v, IF p.totals = <<>> THEN ZeroTotals
                                                ELSE p.totals[1])>>,
                     !.loans = NormalizeLoans(v, p.loans),
                     !.enquiries = IF v = "server_1463" \/ p.enquiries # <<>>
                                   THEN p.enquiries ELSE << <<>> >>]

(***************************************************************************)
(* extractTotalCurrentBalance: the number printed after the anchor phrase, *)
(* read by the variant's parseAmount; 0 when no pattern matches.           *)
(***************************************************************************)
extractTotalCurrentBalance(v, t) ==
    IF t.cap # <<>> /\ t.gap <= AnchorGap(v) THEN parseAmount(v, JsStr(t.cap)) ELSE 0

\* sumSanctionAmtColumn: the sum of the positive values of the rows' last tokens.
RECURSIVE sumSanctionAmtColumn(_)
sumSanctionAmtColumn(rows) ==
    IF rows = <<>> THEN 0
    ELSE LET val == parseAmountStrip(JsStr(Head(rows)))
         IN  (IF val > 0 THEN val ELSE 0) + sumSanctionAmtColumn(Tail(rows))

\* extractScore of part_002 on a sample document: the digits after "<bureau>
\* score" as a number, whatever they are; 0 when the phrase is missing (the
\* sample documents have no other run of three digits).
extractScore(t) == IF t.score # <<>> THEN DigitsToNat(t.score) ELSE 0

\* The result the rule-based handler of part_002 builds.  The sample documents
\* have no section markers, so parseLoansFromSummary and parseEnquiries return [].
RuleBasedResult(v, t) ==
    Result(JsNum(extractScore(t)), JsNum(0), DefaultDpd,
           <<Totals(JsNum(0), JsOr(JsNum(extractTotalCurrentBalance(v, t)), JsNum(0)),
                    JsNum(0), JsNum(0))>>,
           << <<>> >>, << <<>> >>)

\* parseBureauReport of parser.js on a sample document: the score is kept only
\* in [300, 900] and is null otherwise; no loan line, no enquiry line, no DPD
\* context.  The record has no totals and no enquiries key.
ScoreMin == 300
ScoreMax == 900

parseBureauReport(t) ==
    LET val == IF t.score # <<>> THEN DigitsToNat(t.score) ELSE 0
    IN  Result(IF t.score # <<>> /\ val >= ScoreMin /\ val <= ScoreMax THEN JsNum(val) ELSE JsNull,
               JsNum(0), DefaultDpd, <<>>, << <<>> >>, <<>>)

(***************************************************************************)
(* State.                                                                  *)
(*   variant        the handler the server runs                            *)
(*   pc             where each request's handler is suspended              *)
(*   filePath, extractedText, ai                                           *)
(*                  the handler's `let` variables, one binding per call    *)
(*   responses      the bodies sent with res.json, in order                *)
(*   escaped        an exception left the handler                          *)
(*   log            the calls, replies and assignments of the request, in  *)
(*                  program order                                          *)
(*   inp            the request and the replies its collaborators gave     *)
(*   aiReturned     the record analyzeWithAI returned, as returned         *)
(*   fn, arg, ret   a call of one of the helper functions on its own: the  *)
(*                  function, its argument and, once it has returned,      *)
(*                  <<its value>>; fn is "none" while requests are served  *)
(***************************************************************************)
VARIABLES variant, pc, filePath, extractedText, ai, responses, escaped, log, inp, aiReturned,
          fn, arg, ret

vars == <<variant, pc, filePath, extractedText, ai, responses, escaped, log, inp, aiReturned,
          fn, arg, ret>>

\* The number of requests in flight in the concurrent specification.
MaxReq == 2

Req == DOMAIN pc

\* One binding for all calls, as a module-level `let` would be.
SlotShared(r) == 1

\* The binding a request's handler call reads and writes: filePath, extractedText
\* and ai are declared with `let` inside the handler, so each call has its own.
Slot(r) == r

NoInput == [hasFile |-> <<>>, pdf |-> <<>>, ocr |-> <<>>, ai |-> <<>>, san |-> <<>>, unlinkOk |-> <<>>]

InitOver(reqs) ==
    /\ variant \in Variants
    /\ pc = [r \in reqs |-> "idle"]
    /\ filePath = [r \in reqs |-> FALSE]
    /\ extractedText = [r \in reqs |-> EmptyText]
    /\ ai = [r \in reqs |-> <<>>]
    /\ responses = [r \in reqs |-> <<>>]
    /\ escaped = [r \in reqs |-> FALSE]
    /\ log = [r \in reqs |-> <<>>]
    /\ inp = [r \in reqs |-> NoInput]
    /\ aiReturned = [r \in reqs |-> <<>>]

\* No helper function is called on its own while requests are served.
NoCall == fn = "none" /\ arg = <<>> /\ ret = <<>>

Init == InitOver({1}) /\ NoCall

InitConc == InitOver(1..MaxReq) /\ NoCall

\* The replies the collaborators may give.  With one request the sample sets
\* are used, with several the reduced ones.
PdfOutcomes ==
    {TextOutcome(FALSE, EmptyText)} \cup
    {TextOutcome(TRUE, t) : t \in IF Cardinality(Req) = 1 THEN SampleTexts ELSE FewTexts}

OcrOutcomes ==
    {TextOutcome(FALSE, EmptyText)} \cup
    {TextOutcome(TRUE, t) : t \in IF Cardinality(Req) = 1 THEN SampleOcrTexts ELSE FewOcrTexts}

UnlinkOutcomes == IF Cardinality(Req) = 1 THEN BOOLEAN ELSE {TRUE}

AiOutcomes == IF Cardinality(Req) = 1 THEN SampleAiOutcomes ELSE FewAiOutcomes

SanctionOutcomes == IF Cardinality(Req) = 1 THEN SampleSanctionOutcomes ELSE FewSanctionOutcomes

(***************************************************************************)
(* The synchronous segments of the handler, as functions of the request's  *)
(* frame s = [pc, filePath, text, ai, resp, esc, log, aiReturned].         *)
(***************************************************************************)
Cur(r) ==
    [pc |-> pc[r], filePath |-> filePath[Slot(r)], text |-> extractedText[Slot(r)],
     ai |-> ai[Slot(r)], resp |-> responses[r], esc |-> escaped[r], log |-> log[r],
     aiReturned |-> aiReturned[r]]

Commit(r, s) ==
    /\ pc' = [pc EXCEPT ![r] = s.pc]
    /\ filePath' = [filePath EXCEPT ![Slot(r)] = s.filePath]
    /\ extractedText' = [extractedText EXCEPT ![Slot(r)] = s.text]
    /\ ai' = [ai EXCEPT ![Slot(r)] = s.ai]
    /\ responses' = [responses EXCEPT ![r] = s.resp]
    /\ escaped' = [escaped EXCEPT ![r] = s.esc]
    /\ log' = [log EXCEPT ![r] = s.log]
    /\ aiReturned' = [aiReturned EXCEPT ![r] = s.aiReturned]
    /\ UNCHANGED <<variant, fn, arg, ret>>

Event(s, e) == [s EXCEPT !.log = Append(@, e)]

\* res.json(body)
Respond(s, body) == Event([s EXCEPT !.resp = Append(@, body)], "respond")

\* finally { if (filePath) { fs.unlinkSync(filePath) } }; u is whether the unlink
\* succeeds.  part_000's handler has no finally block.
Finally(v, s, u) ==
    IF v # "part0_14" /\ s.filePath
    THEN Event([s EXCEPT !.pc = "done", !.esc = ~u /\ ~UnlinkGuarded(v)], "unlink")
    ELSE [s EXCEPT !.pc = "done"]

\* A `return res.json(body)` inside the try block.
Return(v, s, body, u) == Finally(v, Respond(s, body), u)

\* A catch block that sends nothing.
CatchWithoutResponse(v, s, u) == Finally(v, s, u)

\* The outer catch block.
Catch(v, s, u) == Finally(v, Respond(s, Failure(CatchStatus(v), CatchMsg)), u)

\* The comparison made inclusive.
NeedsOcrInclusive(t) == t.len <= OcrThreshold

\* !extractedText || extractedText.trim().length < 300
NeedsOcr(t) == t.len < OcrThreshold

\* The check removed: every text passes.
IsUnreadableNever(t) == FALSE

\* !extractedText || extractedText.trim().length < 100
IsUnreadable(t) == t.len < UnreadableFloor

\* ocrText && ocrText.trim().length > 100
Adoptable(t) == t.len > UnreadableFloor

\* From the unreadability check to the next await or to the response.
Gate(v, s, u) ==
    IF IsUnreadable(s.text)
    THEN Return(v, Event(s, "gate.fail"), Failure(200, UnreadableMsg(v)), u)
    ELSE IF HasInterpreter(v)
    THEN [Event(Event(s, "gate.pass"), "ai.call") EXCEPT !.pc = "awaitAI"]
    ELSE Return(v, Event(s, "gate.pass"),
                Success(SuccessMsg(v), RuleBasedResult(v, s.text)), u)

\* The request arrives; multer has stored the upload, if any.
AfterArrive(v, s, hasFile) ==
    IF hasFile THEN [s EXCEPT !.filePath = TRUE, !.pc = "awaitPdf"]
    ELSE IF ChecksFile(v) THEN Return(v, s, Failure(200, NoFileMsg(v)), TRUE)
    ELSE Catch(v, s, TRUE)

\* pdf() has settled (a throw of fs.readFileSync counts as its throw).
AfterPdf(v, s, out, u) ==
    IF ~out.ok THEN Catch(v, s, u)
    ELSE LET s1 == [s EXCEPT !.text = out.text]
         IN  IF v = "part0_14"
             THEN [Respond(Event(s1, "unlink"),
                           IF u THEN Success(SuccessMsg(v), parseBureauReport(s1.text))
                           ELSE Failure(CatchStatus(v), CatchMsg))
                   EXCEPT !.pc = "done"]
             ELSE IF NeedsOcr(s1.text)
             THEN [Event(s1, "ocr.call") EXCEPT !.pc = "awaitOcr"]
             ELSE Gate(v, s1, u)

\* performOcrOnPdf() has settled.
AfterOcr(v, s, out, u) ==
    CASE OcrPolicy(v) = "bare" ->
           IF out.ok THEN Gate(v, Event([s EXCEPT !.text = out.text], "ocr.ret"), u)
           ELSE Catch(v, Event(s, "ocr.err"), u)
      [] OcrPolicy(v) = "fatal" ->
           IF out.ok THEN Gate(v, Event([s EXCEPT !.text = out.text], "ocr.ret"), u)
           ELSE Return(v, Event(s, "ocr.err"), Failure(200, OcrFailMsg(v)), u)
      [] OTHER ->
           IF out.ok
           THEN Gate(v, Event([s EXCEPT !.text = IF Adoptable(out.text) THEN out.text ELSE @],
                              "ocr.ret"), u)
           ELSE Gate(v, Event(s, "ocr.err"), u)

\* if (!ai.totals) ai.totals = {}
EnsureTotals(rec) == IF rec.totals = <<>> THEN [rec EXCEPT !.totals = <<NoFieldTotals>>] ELSE rec

\* The totals replaced as a whole instead of one key assigned.
SetLoanOutstandingWhole(rec, x) ==
    [rec EXCEPT !.totals = <<[NoFieldTotals EXCEPT !.loanOutstanding = x]>>]

SetLoanOutstanding(rec, x) == [rec EXCEPT !.totals = <<[@[1] EXCEPT !.loanOutstanding = x]>>]

SetLoanSanctioned(rec, x) == [rec EXCEPT !.totals = <<[@[1] EXCEPT !.loanSanctioned = x]>>]

(***************************************************************************)
(* The value the handler assigns to loanOutstanding, from the anchor value *)
(* totalCurrentBal and the record rec that analyzeWithAI returned:         *)
(*   server_322   ai.totals.loanOutstanding = extractTotalCurrentBalance() *)
(*   the others   totalCurrentBal || ai.totals.loanOutstanding || 0        *)
(*                (part_001 writes the same choice as an if/else)          *)
(***************************************************************************)
ChooseOutstanding(v, totalCurrentBal, rec) ==
    IF v = "server_322" THEN JsNum(totalCurrentBal)
    ELSE JsOr(JsNum(totalCurrentBal), JsOr(rec.totals[1].loanOutstanding, JsNum(0)))

\* sanctionSum || aiResult.totals.loanSanctioned || 0, and part_001's if/else on
\* sanctionTotalActive, which chooses the same way.
ChooseSanctioned(sum, rec) ==
    JsOr(JsNum(sum), JsOr(rec.totals[1].loanSanctioned, JsNum(0)))

\* The failure of analyzeWithAI swallowed: a success response with the anchor
\* value in an otherwise default record.
OnAiErrorPartial(v, s, u) ==
    Return(v, Event(s, "ai.err"),
           Success(SuccessMsg(v),
                   Result(JsNull, JsNum(0), DefaultDpd,
                          <<[ZeroTotals EXCEPT !.loanOutstanding =
                                JsNum(extractTotalCurrentBalance(v, s.text))]>>,
                          <<>>, <<>>)), u)

\* analyzeWithAI() threw: the catch (aiErr) block where the call has one, the
\* outer catch block otherwise.
OnAiError(v, s, u) ==
    IF AiGuarded(v) THEN Return(v, Event(s, "ai.err"), Failure(200, AiErrorMsg), u)
    ELSE Catch(v, Event(s, "ai.err"), u)

\* The call started but not awaited: the response goes out at once.
CallSanctionNoAwait(v, s, u) ==
    Return(v, Event(s, "san.call"), Success(SuccessMsg(v), s.ai[1]), u)

\* await computeSanctionTotalActiveWithAI(extractedText): the handler is suspended
\* until the call settles.
CallSanction(v, s, u) == [Event(s, "san.call") EXCEPT !.pc = "awaitSanction"]

\* analyzeWithAI() has settled.
AfterAi(v, s, out, u) ==
    IF ~out.ok THEN OnAiError(v, s, u)
    ELSE
      LET p == NormalizeReply(v, out.reply)
          s1 == Event([s EXCEPT !.ai = <<p>>, !.aiReturned = <<p>>], "ai.ret")
          bal == extractTotalCurrentBalance(v, s.text)
      IN  CASE v = "part3_146" -> Return(v, s1, Success(SuccessMsg(v), p), u)
            [] v = "server_322" ->
                 \* ai.totals.loanOutstanding = ...: a TypeError when ai.totals is undefined
                 IF p.totals = <<>> THEN Catch(v, s1, u)
                 ELSE LET q == SetLoanOutstanding(p, ChooseOutstanding(v, bal, p))
                          s2 == Event(Event([s1 EXCEPT !.ai = <<q>>], "anchor"),
                                      "set.loanOutstanding")
                      IN  CallSanction(v, s2, u)
            [] v = "part1_442" ->
                 LET e == EnsureTotals(p)
                     q == SetLoanOutstanding(e, ChooseOutstanding(v, bal, e))
                     s2 == Event(Event([s1 EXCEPT !.ai = <<q>>], "anchor"),
                                 "set.loanOutstanding")
                 IN  CallSanction(v, s2, u)
            [] v = "server_1463" ->
                 LET sum == sumSanctionAmtColumn(s.text.rows)
                     e == EnsureTotals(p)
                     q1 == SetLoanOutstanding(e, ChooseOutstanding(v, bal, e))
                     q2 == SetLoanSanctioned(q1, ChooseSanctioned(sum, q1))
                     s2 == Event(Event(Event(Event([s1 EXCEPT !.ai = <<q2>>], "anchor"),
                                 "ruleSum"), "set.loanOutstanding"), "set.loanSanctioned")
                 IN  Return(v, s2, Success(SuccessMsg(v), q2), u)
            [] OTHER ->
                 LET e == EnsureTotals(p)
                     q == SetLoanOutstanding(e, ChooseOutstanding(v, bal, e))
                     s2 == Event(Event([s1 EXCEPT !.ai = <<q>>], "anchor"),
                                 "set.loanOutstanding")
                 IN  Return(v, s2, Success(SuccessMsg(v), q), u)

\* computeSanctionTotalActiveWithAI() has settled; it returns
\* parseAmount(parsed.totalSanctionedActive).
AfterSanction(v, s, out, u) ==
    LET rec == s.ai[1]
        n == parseAmount(v, out.n)
    IN  IF v = "server_322"
        THEN IF out.ok
             THEN LET q == SetLoanSanctioned(rec, JsNum(n))
                  IN  Return(v, Event(Event([s EXCEPT !.ai = <<q>>], "san.ret"),
                                      "set.loanSanctioned"),
                             Success(SuccessMsg(v), q), u)
             ELSE Catch(v, Event(s, "san.err"), u)
        ELSE LET q == SetLoanSanctioned(rec, ChooseSanctioned(IF out.ok THEN n ELSE 0, rec))
             IN  Return(v, Event(Event([s EXCEPT !.ai = <<q>>],
                                       IF out.ok THEN "san.ret" ELSE "san.err"),
                                 "set.loanSanctioned"),
                        Success(SuccessMsg(v), q), u)

\* The unlink outcome is an input only of a step that attempts the unlink.
NoteUnlink(r, s, u) == IF Len(SelectSeq(s.log, LAMBDA e : e = "unlink")) >
                          Len(SelectSeq(log[r], LAMBDA e : e = "unlink"))
                       THEN <<u>> ELSE inp[r].unlinkOk

(***************************************************************************)
(* Actions: one per synchronous segment of the handler.                    *)
(***************************************************************************)
Arrive(r) ==
    /\ pc[r] = "idle"
    /\ \E hasFile \in BOOLEAN :
         /\ Commit(r, AfterArrive(variant, Cur(r), hasFile))
         /\ inp' = [inp EXCEPT ![r].hasFile = <<hasFile>>]

PdfReply(r) ==
    /\ pc[r] = "awaitPdf"
    /\ \E out \in PdfOutcomes, u \in UnlinkOutcomes :
         LET s == AfterPdf(variant, Cur(r), out, u)
         IN  /\ Commit(r, s)
             /\ inp' = [inp EXCEPT ![r].pdf = <<out>>, ![r].unlinkOk = NoteUnlink(r, s, u)]

OcrReply(r) ==
    /\ pc[r] = "awaitOcr"
    /\ \E out \in OcrOutcomes, u \in UnlinkOutcomes :
         LET s == AfterOcr(variant, Cur(r), out, u)
         IN  /\ Commit(r, s)
             /\ inp' = [inp EXCEPT ![r].ocr = <<out>>, ![r].unlinkOk = NoteUnlink(r, s, u)]

AiReply(r) ==
    /\ pc[r] = "awaitAI"
    /\ \E out \in AiOutcomes, u \in UnlinkOutcomes :
         LET s == AfterAi(variant, Cur(r), out, u)
         IN  /\ Commit(r, s)
             /\ inp' = [inp EXCEPT ![r].ai = <<out>>, ![r].unlinkOk = NoteUnlink(r, s, u)]

SanctionReply(r) ==
    /\ pc[r] = "awaitSanction"
    /\ \E out \in SanctionOutcomes, u \in UnlinkOutcomes :
         LET s == AfterSanction(variant, Cur(r), out, u)
         IN  /\ Commit(r, s)
             /\ inp' = [inp EXCEPT ![r].san = <<out>>, ![r].unlinkOk = NoteUnlink(r, s, u)]

Next ==
    \E r \in Req :
        \/ Arrive(r)
        \/ PdfReply(r)
        \/ OcrReply(r)
        \/ AiReply(r)
        \/ SanctionReply(r)

Spec == Init /\ [][Next]_vars

SpecConc == InitConc /\ [][Next]_vars

(***************************************************************************)
(* Vocabulary of the claims.                                               *)
(***************************************************************************)
HasEvent(r, e) == \E i \in DOMAIN log[r] : log[r][i] = e

\* Event e occurs in r's log before position i.
Before(r, e, i) == \E j \in 1..(i - 1) : log[r][j] = e

\* The working text of the request.
WorkingText(r) == extractedText[Slot(r)]

\* The text pdf() gave (the natively extracted text), when it gave one.
HasNative(r) == inp[r].pdf # <<>> /\ inp[r].pdf[1].ok

NativeText(r) == inp[r].pdf[1].text

\* The request has ended with exactly one response, a success.
Succeeded(r) == pc[r] = "done" /\ Len(responses[r]) = 1 /\ responses[r][1].success

\* The record in the success response.
Returned(r) == responses[r][1].result[1]

\* The messages that tell the user what to do (upload the original or a clearer PDF).
AsksForReupload(m) ==
    m \in {UnreadableMsg("server_839"), UnreadableMsg("server_1463"), UnreadableMsg("part3_146"),
           OcrFailMsg("server_1463"), OcrFailMsg("part3_146")}

(***************************************************************************)
(* C1.  The interpreter (analyzeWithAI, computeSanctionTotalActiveWithAI)  *)
(* is never called for a document whose text after the OCR step has        *)
(* trimmed length < 100: whenever a request is past the OCR step with such *)
(* a text, its log holds no interpreter call, then or later.               *)
(***************************************************************************)
C1_NoInterpreterOnUnreadable ==
    \A r \in Req :
        (pc[r] \notin {"idle", "awaitPdf", "awaitOcr"} /\ WorkingText(r).len < UnreadableFloor)
            => (~HasEvent(r, "ai.call") /\ ~HasEvent(r, "san.call"))

\* A request of a variant with an interpreter whose OCR text was still too short
\* has ended, with a response.
C1_Witness ==
    \E r \in Req :
        /\ pc[r] = "done" /\ HasInterpreter(variant)
        /\ HasEvent(r, "ocr.ret") /\ WorkingText(r).len < UnreadableFloor
        /\ Len(responses[r]) = 1

(***************************************************************************)
(* C2.  A document whose text still has trimmed length < 100 after the     *)
(* attempted OCR step ends in one failure response with a message that     *)
(* tells the user what to do and no result, and no exception leaves the    *)
(* handler.                                                                *)
(***************************************************************************)
C2_UnreadableIsStructuredFailure ==
    \A r \in Req :
        (pc[r] = "done" /\ HasEvent(r, "ocr.call") /\ WorkingText(r).len < UnreadableFloor)
            => /\ Len(responses[r]) = 1
               /\ ~responses[r][1].success
               /\ responses[r][1].result = <<>>
               /\ AsksForReupload(responses[r][1].message)
               /\ ~escaped[r]

(***************************************************************************)
(* C3.  When the OCR call raises an error the handler keeps the native     *)
(* text and goes on to extraction unless that text has trimmed length      *)
(* < 100: with a readable native text the interpreter is called (or, in    *)
(* the rule-based variant, the success response is sent).                  *)
(***************************************************************************)
C3_OcrErrorIsNotFatal ==
    \A r \in Req :
        HasEvent(r, "ocr.err")
            => /\ WorkingText(r) = NativeText(r)
               /\ NativeText(r).len >= UnreadableFloor
                    => IF HasInterpreter(variant) THEN HasEvent(r, "ai.call")
                       ELSE Succeeded(r)

(***************************************************************************)
(* C4.  As stated: when analyzeWithAI fails the request still ends in a    *)
(* success response whose record is built from the anchor candidate (its   *)
(* loanOutstanding is the anchored value).                                 *)
(***************************************************************************)
HasAnchor(v, t) == t.cap # <<>> /\ t.gap <= AnchorGap(v)

\* The number printed next to the anchor phrase, thousands separators dropped.
AnchorValue(t) == DigitsToNat(SelectSeq(t.cap, LAMBDA c : c \in DigitChars))

LooksForAnchor(v) == v \notin {"part3_146", "part0_14"}

C5_AnchorWins ==
    \A r \in Req :
        (Succeeded(r) /\ LooksForAnchor(variant) /\ HasAnchor(variant, WorkingText(r)))
            => Returned(r).totals[1].loanOutstanding = JsNum(AnchorValue(WorkingText(r)))

(***************************************************************************)
(* C6.  When the text has no anchor phrase, the loanOutstanding of the     *)
(* success response is the interpreter's loanOutstanding if it returned    *)
(* one, and 0 otherwise (loanOutstanding has no ruleSum candidate).        *)
(***************************************************************************)
ExternalOutstanding(r) ==
    IF aiReturned[r] # <<>> /\ aiReturned[r][1].totals # <<>>
          /\ aiReturned[r][1].totals[1].loanOutstanding.k = "num"
    THEN aiReturned[r][1].totals[1].loanOutstanding
    ELSE JsNum(0)

C6_FallbackWithoutAnchor ==
    \A r \in Req :
        (Succeeded(r) /\ variant # "part0_14" /\ WorkingText(r).cap = <<>>)
            => Returned(r).totals[1].loanOutstanding = ExternalOutstanding(r)

(***************************************************************************)
(* C7.  The override step changes loanOutstanding and loanSanctioned only: *)
(* in a success response of a variant with an interpreter, cardLimit,      *)
(* cardOutstanding, score, enquiryCount, dpd, loans and enquiries are the  *)
(* values of the record analyzeWithAI returned; and two requests with the  *)
(* same interpreter record and the same sanction candidates get the same   *)
(* loanSanctioned, whether or not their texts print the anchor.            *)
(***************************************************************************)
TotalOf(rec, f) == IF rec.totals = <<>> THEN JsUndef ELSE rec.totals[1][f]

SameButOverridden(a, b) ==
    /\ a.score = b.score
    /\ a.enquiryCount = b.enquiryCount
    /\ a.dpd = b.dpd
    /\ a.loans = b.loans
    /\ a.enquiries = b.enquiries
    /\ TotalOf(a, "cardLimit") = TotalOf(b, "cardLimit")
    /\ TotalOf(a, "cardOutstanding") = TotalOf(b, "cardOutstanding")

C7_OverrideIsPerField ==
    /\ \A r \in Req :
         (Succeeded(r) /\ HasInterpreter(variant))
            => SameButOverridden(Returned(r), aiReturned[r][1])
    /\ \A r1, r2 \in Req :
         (/\ Succeeded(r1) /\ Succeeded(r2) /\ HasInterpreter(variant)
          /\ aiReturned[r1] = aiReturned[r2]
          /\ inp[r1].san = inp[r2].san
          /\ WorkingText(r1).rows = WorkingText(r2).rows)
            => TotalOf(Returned(r1), "loanSanctioned") = TotalOf(Returned(r2), "loanSanctioned")

\* Two requests have succeeded on the same interpreter record, one with the
\* anchor in its text and overridden by it, the other without the anchor.
C7_Witness ==
    \E r1, r2 \in Req :
        /\ Succeeded(r1) /\ Succeeded(r2) /\ HasInterpreter(variant)
        /\ HasEvent(r1, "set.loanOutstanding") /\ HasEvent(r2, "set.loanOutstanding")
        /\ aiReturned[r1] = aiReturned[r2]
        /\ inp[r1].san = inp[r2].san
        /\ WorkingText(r1).rows = WorkingText(r2).rows
        /\ HasAnchor(variant, WorkingText(r1)) /\ WorkingText(r2).cap = <<>>
        /\ TotalOf(Returned(r1), "loanOutstanding") # TotalOf(aiReturned[r1][1], "loanOutstanding")
        /\ TotalOf(Returned(r1), "cardLimit") = JsNum(3)

(***************************************************************************)
(* C8.  A total is assigned only after every source of its candidates has  *)
(* completed: loanOutstanding after the anchor extraction and the return   *)
(* of analyzeWithAI, loanSanctioned after the return of analyzeWithAI and  *)
(* the completion of the sanction sum (the column sum, or the settled call *)
(* of computeSanctionTotalActiveWithAI).  A success response is sent after *)
(* the totals the variant reconciles are assigned and with no call         *)
(* outstanding, and from then on the record in the response is the record  *)
(* the handler holds.                                                      *)
(***************************************************************************)
Reconciles(v) == HasInterpreter(v) /\ v # "part3_146"

ReconcilesSanction(v) == v \in {"server_322", "part1_442", "server_1463"}

C8_ReconcileAfterSources ==
    \A r \in Req :
        /\ \A i \in DOMAIN log[r] :
             /\ log[r][i] = "set.loanOutstanding"
                    => Before(r, "anchor", i) /\ Before(r, "ai.ret", i)
             /\ log[r][i] = "set.loanSanctioned"
                    => /\ Before(r, "ai.ret", i)
                       /\ \/ Before(r, "ruleSum", i)
                          \/ Before(r, "san.ret", i)
                          \/ Before(r, "san.err", i)
             /\ (log[r][i] = "respond" /\ responses[r][1].success)
                    => /\ Before(r, "ai.call", i) => Before(r, "ai.ret", i)
                       /\ Before(r, "san.call", i)
                            => Before(r, "san.ret", i) \/ Before(r, "san.err", i)
                       /\ Reconciles(variant) => Before(r, "set.loanOutstanding", i)
                       /\ ReconcilesSanction(variant) => Before(r, "set.loanSanctioned", i)
                       /\ \A j \in DOMAIN log[r] : log[r][j] \in {"set.loanOutstanding",
                                                                  "set.loanSanctioned"} => j < i
        /\ (Succeeded(r) /\ HasInterpreter(variant)) => responses[r][1].result = ai[Slot(r)]

\* A request has succeeded after both interpreter calls settled, while another
\* request is still in flight.
C8_Witness ==
    \E r, q \in Req :
        /\ Succeeded(r) /\ HasEvent(r, "san.ret") /\ HasEvent(r, "set.loanSanctioned")
        /\ HasAnchor(variant, WorkingText(r))
        /\ pc[q] \in {"awaitOcr", "awaitAI", "awaitSanction"}

(***************************************************************************)
(* C9.  Concurrent requests do not interfere: two requests that got the    *)
(* same upload and the same replies to their own calls end with the same   *)
(* response, whatever the other request did in between; and a step of one  *)
(* request changes nothing another request holds (its path, text, record,  *)
(* responses) nor anything shared by the requests.                         *)
(***************************************************************************)
SameInputsSameResponse ==
    \A r1, r2 \in Req :
        (pc[r1] = "done" /\ pc[r2] = "done" /\ inp[r1] = inp[r2])
            => responses[r1] = responses[r2] /\ escaped[r1] = escaped[r2]

OthersUntouched ==
    /\ variant' = variant
    /\ \A r \in Req : pc'[r] = pc[r] => Cur(r)' = Cur(r)

C9_NoInterference == []SameInputsSameResponse /\ [][OthersUntouched]_vars

\* Two requests on different documents are suspended at different await points,
\* one after its OCR and before its interpreter reply, the other before its OCR reply.
C9_Witness ==
    \E r1, r2 \in Req :
        /\ pc[r1] = "awaitAI" /\ HasEvent(r1, "ocr.ret")
        /\ pc[r2] = "awaitOcr"
        /\ WorkingText(r1) # WorkingText(r2)

C11_OcrNeverShortens ==
    \A r \in Req :
        (HasNative(r) /\ HasEvent(r, "ocr.ret"))
            => WorkingText(r).len >= NativeText(r).len

(***************************************************************************)
(* The helper functions on their own.                                      *)
(*                                                                         *)
(* Deduplication of parseBureauReport (parser.js:100-108).  A loan of      *)
(* parser.js is [type, status, line]; the loop keeps a loan when its line  *)
(* has not been seen.                                                      *)
(***************************************************************************)
Loan(type, status, line) == [type |-> type, status |-> status, line |-> line]

\* The loans pushed for every row, none dropped.
uniqueLoansKeepAll(loans) == loans

RECURSIVE uniqueLoans(_)
uniqueLoans(loans) ==
    IF loans = <<>> THEN <<>>
    ELSE LET last == loans[Len(loans)]
             front == SubSeq(loans, 1, Len(loans) - 1)
             kept == uniqueLoans(front)
         IN  IF \E i \in DOMAIN front : front[i].line = last.line
             THEN kept ELSE Append(kept, last)

(***************************************************************************)
(* sliceBetween (part_002:106-116) on a sequence of characters.  Lower is  *)
(* toLowerCase on the letters of the sample texts.                         *)
(***************************************************************************)
Lower(c) ==
    CASE c = "S" -> "s" [] c = "E" -> "e" [] c = "F" -> "f" [] c = "X" -> "x"
      [] c = "Y" -> "y" [] c = "M" -> "m"
      [] OTHER -> c

LowerAll(s) == [i \in DOMAIN s |-> Lower(s[i])]

\* hay.indexOf(needle, from), with positions counted from 1 and 0 for -1; from
\* is at least 1.
indexOf(hay, needle, from) ==
    LET hits == {i \in from..(Len(hay) - Len(needle) + 1) :
                    SubSeq(hay, i, i + Len(needle) - 1) = needle}
    IN  IF hits = {} THEN 0 ELSE CHOOSE i \in hits : \A j \in hits : i <= j

\* The loop over endMarkers: endIdx after the markers ems have been tried.
RECURSIVE EndIdx(_, _, _, _)
EndIdx(lower, ems, from, endIdx) ==
    IF ems = <<>> THEN endIdx
    ELSE LET i == indexOf(lower, LowerAll(Head(ems)), from)
         IN  EndIdx(lower, Tail(ems), from, IF i # 0 /\ i < endIdx THEN i ELSE endIdx)

\* The loop left at the first end marker found.
RECURSIVE EndIdxFirstFound(_, _, _, _)
EndIdxFirstFound(lower, ems, from, endIdx) ==
    IF ems = <<>> THEN endIdx
    ELSE LET i == indexOf(lower, LowerAll(Head(ems)), from)
         IN  IF i # 0 /\ i < endIdx THEN i
             ELSE EndIdxFirstFound(lower, Tail(ems), from, endIdx)

\* The whole text returned when the start marker is missing.
sliceBetweenWholeOnMiss(text, startMarker, endMarkers) ==
    LET lower == LowerAll(text)
        startIdx == indexOf(lower, LowerAll(startMarker), 1)
    IN  IF startIdx = 0 THEN text
        ELSE SubSeq(text, startIdx,
                    EndIdx(lower, endMarkers, startIdx + Len(startMarker), Len(text) + 1) - 1)

sliceBetweenFirstFound(text, startMarker, endMarkers) ==
    LET lower == LowerAll(text)
        startIdx == indexOf(lower, LowerAll(startMarker), 1)
    IN  IF startIdx = 0 THEN <<>>
        ELSE SubSeq(text, startIdx,
                    EndIdxFirstFound(lower, endMarkers, startIdx + Len(startMarker),
                                     Len(text) + 1) - 1)

sliceBetween(text, startMarker, endMarkers) ==
    LET lower == LowerAll(text)
        startIdx == indexOf(lower, LowerAll(startMarker), 1)
    IN  IF startIdx = 0 THEN <<>>
        ELSE SubSeq(text, startIdx,
                    EndIdx(lower, endMarkers, startIdx + Len(startMarker), Len(text) + 1) - 1)

(***************************************************************************)
(* parseLoansFromSummary (part_002:119-225).  A report is a sequence of    *)
(* lines and a line is written as the string it is; sliceBetween cuts the  *)
(* report at whole lines (the markers of the sample reports stand on lines *)
(* of their own).  Cells gives line.split(/\s{2,}/) with the cells trimmed *)
(* and the empty ones dropped, each cell a sequence of characters: the     *)
(* amounts character by character, a name as one unit.                     *)
(***************************************************************************)
SummaryMarker == "SUMMARY: CREDIT ACCOUNT INFORMATION"
DetailsMarker == "CREDIT ACCOUNT INFORMATION DETAILS"
EnquiriesMarker == "CREDIT ENQUIRIES"
SummaryEnquiriesMarker == "SUMMARY: CREDIT ENQUIRIES"
EndOfReportMarker == "END OF REPORT"

HeaderLine ==
    "Lender  Account Type  Account Status  Sanction Amt / Highest Credit  Current Balance"
RowHome == "HDFC Bank  Home Loan  Active  7,50,000  3,20,000"
RowHomeAgain == "HDFC Bank  Home Loan  Active  1,00,000  90,000"
RowCard == "ICICI Bank  Credit Card  Closed  50,000  0"
RowTotal == "Total  9,00,000  4,10,000"
RowShort == "Page 1  of 2"
EnquiryHeaderLine == "Institution  Enquiry Type  Enquiry Date  Enquiry Amount"
EnquiryRow == "HDFC Bank  Home Loan  01-01-2024  5,00,000"
EnquiryRowLater == "SBI  Personal Loan  05-02-2024  2,00,000"
TotalEnquiriesLine == "Total Enquiries: 5"
OverdueHeaderLine ==
    "Lender  Account Type  Account Status  Sanction Amt  Current Balance  Amount Overdue"
RowOverdue == "SBI  Personal Loan  Suit Filed  2,00,000  1,50,000  5,000"
RowPaid == "Axis Bank  Auto Loan  Active  3,00,000  1,00,000  0"
RowNoAmounts == "Kotak Bank  Gold Loan  Active"
RowTotalUpper == "TOTAL  5,00,000  2,50,000  5,000"

Cells(line) ==
    CASE line = HeaderLine ->
           << <<"Lender">>, <<"Account Type">>, <<"Account Status">>,
              <<"Sanction Amt / Highest Credit">>, <<"Current Balance">> >>
      [] line = RowHome ->
           << <<"HDFC Bank">>, <<"Home Loan">>, <<"Active">>,
              <<"7", ",", "5", "0", ",", "0", "0", "0">>,
              <<"3", ",", "2", "0", ",", "0", "0", "0">> >>
      [] line = RowHomeAgain ->
           << <<"HDFC Bank">>, <<"Home Loan">>, <<"Active">>,
              <<"1", ",", "0", "0", ",", "0", "0", "0">>,
              <<"9", "0", ",", "0", "0", "0">> >>
      [] line = RowCard ->
           << <<"ICICI Bank">>, <<"Credit Card">>, <<"Closed">>,
              <<"5", "0", ",", "0", "0", "0">>, <<"0">> >>
      [] line = RowTotal ->
           << <<"Total">>, <<"9", ",", "0", "0", ",", "0", "0", "0">>,
              <<"4", ",", "1", "0", ",", "0", "0", "0">> >>
      [] line = RowShort -> << <<"Page 1">>, <<"of 2">> >>
      [] line = EnquiryHeaderLine ->
           << <<"Institution">>, <<"Enquiry Type">>, <<"Enquiry Date">>,
              <<"Enquiry Amount">> >>
      [] line = EnquiryRow ->
           << <<"HDFC Bank">>, <<"Home Loan">>, <<"01-01-2024">>,
              <<"5", ",", "0", "0", ",", "0", "0", "0">> >>
      [] line = EnquiryRowLater ->
           << <<"SBI">>, <<"Personal Loan">>, <<"05-02-2024">>,
              <<"2", ",", "0", "0", ",", "0", "0", "0">> >>
      [] line = OverdueHeaderLine ->
           << <<"Lender">>, <<"Account Type">>, <<"Account Status">>, <<"Sanction Amt">>,
              <<"Current Balance">>, <<"Amount Overdue">> >>
      [] line = RowOverdue ->
           << <<"SBI">>, <<"Personal Loan">>, <<"Suit Filed">>,
              <<"2", ",", "0", "0", ",", "0", "0", "0">>,
              <<"1", ",", "5", "0", ",", "0", "0", "0">>, <<"5", ",", "0", "0", "0">> >>
      [] line = RowPaid ->
           << <<"Axis Bank">>, <<"Auto Loan">>, <<"Active">>,
              <<"3", ",", "0", "0", ",", "0", "0", "0">>,
              <<"1", ",", "0", "0", ",", "0", "0", "0">>, <<"0">> >>
      [] line = RowNoAmounts -> << <<"Kotak Bank">>, <<"Gold Loan">>, <<"Active">> >>
      [] line = RowTotalUpper ->
           << <<"TOTAL">>, <<"5", ",", "0", "0", ",", "0", "0", "0">>,
              <<"2", ",", "5", "0", ",", "0", "0", "0">>, <<"5", ",", "0", "0", "0">> >>
      [] OTHER -> << <<line>> >>

\* The lower-cased words and phrases of a cell that the header tests look for;
\* "^total" stands for a cell that begins with "total" in any case.
Words(cell) ==
    CASE cell = <<"Lender">> -> {"lender"}
      [] cell = <<"Account Type">> -> {"account", "account type", "type"}
      [] cell = <<"Account Status">> -> {"account", "status"}
      [] cell = <<"Sanction Amt / Highest Credit">> -> {"sanction", "highest credit"}
      [] cell = <<"Current Balance">> -> {"current", "current balance"}
      [] cell = <<SummaryMarker>> -> {"account"}
      [] cell = <<DetailsMarker>> -> {"account"}
      [] cell = <<"Institution">> -> {"institution"}
      [] cell = <<"Enquiry Type">> -> {"type"}
      [] cell = <<"Enquiry Date">> -> {"date"}
      [] cell = <<"Enquiry Amount">> -> {"amount"}
      [] cell = <<"Sanction Amt">> -> {"sanction"}
      [] cell = <<"Amount Overdue">> -> {"amount", "amount overdue"}
      [] cell = <<"Total">> -> {"^total"}
      [] cell = <<"TOTAL">> -> {"^total"}
      [] cell = <<TotalEnquiriesLine>> -> {"^total", "total enquiries"}
      [] OTHER -> {}

\* line.toLowerCase().includes(w)
Includes(line, w) == \E i \in DOMAIN Cells(line) : w \in Words(Cells(line)[i])

\* /^total/i.test(line)
StartsWithTotalNever(line) == FALSE

StartsWithTotal(line) == "^total" \in Words(Cells(line)[1])

\* headerCols.findIndex(h => re.test(h)) for a test that looks for one of the
\* words ws: the first such column and 0 for -1.
findIndexOf(headerCols, ws) ==
    LET hits == {i \in DOMAIN headerCols : Words(headerCols[i]) \cap ws # {}}
    IN  IF hits = {} THEN 0 ELSE CHOOSE i \in hits : \A j \in hits : i <= j

\* The column read one place to the right.
getColShifted(cols, idxVal) ==
    IF idxVal = 0 THEN <<>>
    ELSE IF idxVal + 1 \in DOMAIN cols THEN cols[idxVal + 1] ELSE <<>>

\* getCol: cols[idxVal] || "", and "" when the header has no such column.
getCol(cols, idxVal) ==
    IF idxVal = 0 THEN <<>>
    ELSE IF idxVal \in DOMAIN cols THEN cols[idxVal] ELSE <<>>

\* The first line of lines, from position i on, that is a header line; 0 when
\* there is none.
HeaderIndex(lines) ==
    LET hits == {i \in DOMAIN lines :
                    /\ Includes(lines[i], "lender") \/ Includes(lines[i], "member")
                    /\ Includes(lines[i], "account")
                    /\ Includes(lines[i], "current") \/ Includes(lines[i], "sanction")}
    IN  IF hits = {} THEN 0 ELSE CHOOSE i \in hits : \A j \in hits : i <= j

\* A loan of part_002: line stands for `${lender} • ${type} • ${status}`; of the
\* details the amounts are kept.
TableLoan(lender, type, status, sanctionAmount, currentBalance, amountOverdue) ==
    [type |-> type, status |-> status, line |-> <<lender, type, status>>,
     details |-> [sanctionAmount |-> sanctionAmount, currentBalance |-> currentBalance,
                  amountOverdue |-> amountOverdue]]

\* The row loop that ends at the first row it drops.
RECURSIVE RowLoopStopsAtDrop(_, _, _, _)
RowLoopStopsAtDrop(lines, i, idx, loans) ==
    IF i > Len(lines) THEN loans
    ELSE LET line == lines[i]
             cols == Cells(line)
             sanctionStr == getCol(cols, idx.sanction)
             currentStr == getCol(cols, idx.current)
             overdueStr == getCol(cols, idx.overdue)
             accountType == getCol(cols, idx.accountType)
             accountStatus == getCol(cols, idx.accountStatus)
         IN  IF StartsWithTotal(line) THEN loans
             ELSE IF line = SummaryMarker THEN RowLoopStopsAtDrop(lines, i + 1, idx, loans)
             ELSE IF line = DetailsMarker THEN loans
             ELSE IF Len(cols) < 3 THEN loans
             ELSE IF sanctionStr = <<>> /\ currentStr = <<>> /\ overdueStr = <<>> THEN loans
             ELSE RowLoopStopsAtDrop(lines, i + 1, idx,
                          Append(loans,
                                 TableLoan(getCol(cols, idx.lender),
                                           IF accountType = <<>> THEN <<"Account">>
                                           ELSE accountType,
                                           IF accountStatus = <<>> THEN <<"Unknown">>
                                           ELSE accountStatus,
                                           parseAmountStrip(JsStr(sanctionStr)),
                                           parseAmountStrip(JsStr(currentStr)),
                                           parseAmountStrip(JsStr(overdueStr)))))

\* The body of the row loop for the lines from position i on.
RECURSIVE RowLoop(_, _, _, _)
RowLoop(lines, i, idx, loans) ==
    IF i > Len(lines) THEN loans
    ELSE LET line == lines[i]
             cols == Cells(line)
             sanctionStr == getCol(cols, idx.sanction)
             currentStr == getCol(cols, idx.current)
             overdueStr == getCol(cols, idx.overdue)
             accountType == getCol(cols, idx.accountType)
             accountStatus == getCol(cols, idx.accountStatus)
         IN  IF StartsWithTotal(line) THEN loans
             ELSE IF line = SummaryMarker THEN RowLoop(lines, i + 1, idx, loans)
             ELSE IF line = DetailsMarker THEN loans
             ELSE IF Len(cols) < 3 THEN RowLoop(lines, i + 1, idx, loans)
             ELSE IF sanctionStr = <<>> /\ currentStr = <<>> /\ overdueStr = <<>>
             THEN RowLoop(lines, i + 1, idx, loans)
             ELSE RowLoop(lines, i + 1, idx,
                          Append(loans,
                                 TableLoan(getCol(cols, idx.lender),
                                           IF accountType = <<>> THEN <<"Account">>
                                           ELSE accountType,
                                           IF accountStatus = <<>> THEN <<"Unknown">>
                                           ELSE accountStatus,
                                           parseAmountStrip(JsStr(sanctionStr)),
                                           parseAmountStrip(JsStr(currentStr)),
                                           parseAmountStrip(JsStr(overdueStr)))))

parseLoansFromSummary(text) ==
    LET block == sliceBetween(text, <<SummaryMarker>>,
                              << <<DetailsMarker>>, <<EnquiriesMarker>>,
                                 <<SummaryEnquiriesMarker>> >>)
        headerIndex == HeaderIndex(block)
        headerCols == Cells(block[headerIndex])
        idx == [lender |-> findIndexOf(headerCols, {"lender", "member"}),
                accountType |-> findIndexOf(headerCols, {"account type"}),
                accountStatus |-> findIndexOf(headerCols, {"status"}),
                sanction |-> findIndexOf(headerCols, {"sanction", "highest credit"}),
                current |-> findIndexOf(headerCols, {"current balance", "current bal"}),
                overdue |-> findIndexOf(headerCols, {"amount overdue"})]
    IN  IF block = <<>> THEN <<>>
        ELSE IF headerIndex = 0 THEN <<>>
        ELSE RowLoop(block, headerIndex + 1, idx, <<>>)

(***************************************************************************)
(* parseEnquiries (part_002:228-290), on the same reports.                 *)
(***************************************************************************)
EnquiryHeaderIndex(lines) ==
    LET hits == {i \in DOMAIN lines :
                    \/ Includes(lines[i], "institution")
                    \/ Includes(lines[i], "member") /\ Includes(lines[i], "name")}
    IN  IF hits = {} THEN 0 ELSE CHOOSE i \in hits : \A j \in hits : i <= j

Enquiry(institution, enquiryType, date, amount, status) ==
    [institution |-> institution, enquiryType |-> enquiryType, date |-> date,
     amount |-> amount, status |-> status]

RECURSIVE EnquiryLoop(_, _, _, _)
EnquiryLoop(lines, i, idx, enquiries) ==
    IF i > Len(lines) THEN enquiries
    ELSE LET line == lines[i]
             cols == Cells(line)
             institution == getCol(cols, idx.institution)
             enquiryType == getCol(cols, idx.enquiryType)
             date == getCol(cols, idx.date)
         IN  IF StartsWithTotal(line) THEN enquiries
             ELSE IF institution = <<>> /\ enquiryType = <<>> /\ date = <<>>
             THEN EnquiryLoop(lines, i + 1, idx, enquiries)
             ELSE EnquiryLoop(lines, i + 1, idx,
                              Append(enquiries,
                                     Enquiry(institution, enquiryType, date,
                                             parseAmountStrip(JsStr(getCol(cols, idx.amount))),
                                             getCol(cols, idx.status))))

parseEnquiries(text) ==
    LET block == sliceBetween(text, <<EnquiriesMarker>>,
                              << <<SummaryMarker>>, <<DetailsMarker>>,
                                 <<EndOfReportMarker>> >>)
        headerIndex == EnquiryHeaderIndex(block)
        headerCols == Cells(block[headerIndex])
        idx == [institution |-> findIndexOf(headerCols, {"institution", "member"}),
                enquiryType |-> findIndexOf(headerCols, {"type"}),
                date |-> findIndexOf(headerCols, {"date"}),
                amount |-> findIndexOf(headerCols, {"amount"}),
                status |-> findIndexOf(headerCols, {"status"})]
    IN  IF block = <<>> THEN <<>>
        ELSE IF headerIndex = 0 THEN <<>>
        ELSE EnquiryLoop(block, headerIndex + 1, idx, <<>>)

\* Every loan counted, whatever it owes.
buildDpdSummaryEveryLoan(loans) ==
    IF loans = <<>> THEN [clean |-> TRUE, n |-> 0] ELSE [clean |-> FALSE, n |-> Len(loans)]

\* buildDpdSummary (part_002:293-299); n stands for `Overdues in ${n} account(s)`.
buildDpdSummary(loans) ==
    LET withOverdue == SelectSeq(loans, LAMBDA l : l.details.amountOverdue > 0)
    IN  IF withOverdue = <<>> THEN [clean |-> TRUE, n |-> 0]
        ELSE [clean |-> FALSE, n |-> Len(withOverdue)]

\* What the rule-based handler reads off the lines of the text (part_002:346-349).
RuleBasedTables(text) ==
    LET loans == parseLoansFromSummary(text)
        enquiries == parseEnquiries(text)
    IN  [loans |-> loans, enquiries |-> enquiries, enquiryCount |-> Len(enquiries),
         dpd |-> buildDpdSummary(loans)]

(***************************************************************************)
(* The score extractors on a text given as the sequence of its phrases.    *)
(* A phrase [k, n] is one of                                               *)
(*   "experian"  Experian Credit Score <n>                                 *)
(*   "bureau"    CIBIL Score <n>         (a bureau name, "score", a number)*)
(*   "named"     CIBIL ref <n>           (a bureau name and, within 40     *)
(*                                        characters, a number; no "score")*)
(*   "credit"    Credit Score <n>        (no bureau name)                  *)
(*   "num"       <n>                     (a number on its own)             *)
(*   "word"      a word without digits                                     *)
(* with n a number of three digits.  The phrases are far enough apart that *)
(* no pattern matches across two of them, and all stand in the first 30    *)
(* lines.                                                                  *)
(***************************************************************************)
Phrase(k, n) == [k |-> k, n |-> n]

\* The first phrase of toks whose kind is in ks, as <<phrase>>; <<>> when none.
FirstOf(toks, ks) ==
    LET hits == SelectSeq(toks, LAMBDA p : p.k \in ks)
    IN  IF hits = <<>> THEN <<>> ELSE <<Head(hits)>>

\* The first number of the text that lies in [300, 900].
FirstInRange(toks) ==
    LET hits == SelectSeq(toks, LAMBDA p : p.k # "word" /\ p.n >= ScoreMin /\ p.n <= ScoreMax)
    IN  IF hits = <<>> THEN <<>> ELSE <<Head(hits).n>>

\* The fallback tried first: the first number in [300, 900] wherever it stands.
extractScoreTokensFallbackFirst(toks) ==
    LET m == FirstOf(toks, {"experian", "bureau"})
        m2 == FirstInRange(toks)
    IN  IF m2 # <<>> THEN m2[1]
        ELSE IF m # <<>> THEN m[1].n
        ELSE 0

(***************************************************************************)
(* extractScore (part_002:71-89).  The first pattern returns the number of *)
(* the first "<bureau> [credit] score <n>" phrase as it is.  The second    *)
(* pattern has one group only, so its m[2] is undefined and it never       *)
(* returns.  Then the first number in [300, 900], and 0 when there is none.*)
(***************************************************************************)
extractScoreTokens(toks) ==
    LET m == FirstOf(toks, {"experian", "bureau"})
        m2 == FirstInRange(toks)
    IN  IF m # <<>> THEN m[1].n
        ELSE IF m2 # <<>> THEN m2[1]
        ELSE 0

(***************************************************************************)
(* The score of parseBureauReport (parser.js:7-37): of each of the three   *)
(* patterns the first match is read, and kept when its number is in        *)
(* [300, 900]; then the first number in [300, 900]; then null.             *)
(***************************************************************************)
parserScore(toks) ==
    LET InRange(m) == m # <<>> /\ m[1].n >= ScoreMin /\ m[1].n <= ScoreMax
        m1 == FirstOf(toks, {"experian", "bureau", "named"})
        m2 == FirstOf(toks, {"experian", "credit"})
        m3 == FirstOf(toks, {"experian", "bureau", "credit"})
        rest == FirstInRange(toks)
    IN  IF InRange(m1) THEN JsNum(m1[1].n)
        ELSE IF InRange(m2) THEN JsNum(m2[1].n)
        ELSE IF InRange(m3) THEN JsNum(m3[1].n)
        ELSE IF rest # <<>> THEN JsNum(rest[1])
        ELSE JsNull

(***************************************************************************)
(* parseTenureToMonths (server.js:447-460, part_003:867-884) on a string   *)
(* without a decimal point.  A pattern (\d+)\s*(u1|u2|...) matches at the  *)
(* leftmost run of digits that is followed, after any white space, by one  *)
(* of the units; its first group is that run.                              *)
(***************************************************************************)
\* s from position i on.
From(s, i) == SubSeq(s, i, Len(s))

\* s starts with w.
StartsWith(s, w) == Len(s) >= Len(w) /\ SubSeq(s, 1, Len(w)) = w

\* The positions where a run of digits begins.
RunStarts(s) == {i \in DOMAIN s : s[i] \in DigitChars /\ (i = 1 \/ s[i - 1] \notin DigitChars)}

\* The first group of the leftmost match of (\d+)\s*(units) in s; <<>> when
\* the pattern does not match.
MatchNumberUnit(s, units) ==
    LET hits == {i \in RunStarts(s) :
                    \E u \in units :
                        StartsWith(TrimLeft(From(s, i + Len(DigitPrefix(From(s, i))))), u)}
    IN  IF hits = {} THEN <<>>
        ELSE DigitPrefix(From(s, CHOOSE i \in hits : \A j \in hits : i <= j))

\* The first run of digits of s; <<>> when s has no digit.
FirstRun(s) ==
    IF RunStarts(s) = {} THEN <<>>
    ELSE DigitPrefix(From(s, CHOOSE i \in RunStarts(s) : \A j \in RunStarts(s) : i <= j))

\* (yr|year|years): "years" begins with "year", so it adds no match.
YearUnits == {<<"y", "r">>, <<"y", "e", "a", "r">>}

\* (m|mo|month|months): all begin with "m".
MonthUnits == {<<"m">>}

\* Years read as months: the factor 12 left out.
parseTenureToMonthsNoFactor(val) ==
    IF IsNullish(val) THEN JsNull
    ELSE IF val.k = "num" THEN val
    ELSE LET s == Trim(LowerAll(JsString(val)))
             years == MatchNumberUnit(s, YearUnits)
             months == MatchNumberUnit(s, MonthUnits)
         IN  IF years # <<>> THEN JsNum(DigitsToNat(years))
             ELSE IF months # <<>> THEN JsNum(DigitsToNat(months))
             ELSE IF s # <<>> /\ DigitPrefix(s) = s THEN JsNum(DigitsToNat(s))
             ELSE IF FirstRun(s) # <<>> THEN JsNum(DigitsToNat(FirstRun(s)))
             ELSE JsNull

parseTenureToMonths(val) ==
    IF IsNullish(val) THEN JsNull
    ELSE IF val.k = "num" THEN val
    ELSE LET s == Trim(LowerAll(JsString(val)))
             years == MatchNumberUnit(s, YearUnits)
             months == MatchNumberUnit(s, MonthUnits)
         IN  IF years # <<>> THEN JsNum(DigitsToNat(years) * 12)
             ELSE IF months # <<>> THEN JsNum(DigitsToNat(months))
             ELSE IF s # <<>> /\ DigitPrefix(s) = s THEN JsNum(DigitsToNat(s))
             ELSE IF FirstRun(s) # <<>> THEN JsNum(DigitsToNat(FirstRun(s)))
             ELSE JsNull

(***************************************************************************)
(* parseBureauReport (parser.js:39-117) on a text given as its trimmed,    *)
(* non-empty lines.  Mentions(line) is the set of the keywords the         *)
(* lower-cased line contains, among those the function looks for.          *)
(***************************************************************************)
LineHome == "HDFC Bank Home Loan Active"
LinePersonal == "SBI Personal Loan 2,00,000"
LineWrittenOff == "Status: Written Off"
LineCard == "ICICI Credit Card Settled"
LineEnquiryDate == "Enquiry Date 01-01-2024"

Mentions(line) ==
    CASE line = LineHome -> {"loan", "home loan", "active"}
      [] line = LinePersonal -> {"loan", "personal loan"}
      [] line = LineWrittenOff -> {"written off"}
      [] line = LineCard -> {"credit card", "card", "settled"}
      [] line = LineEnquiryDate -> {"enquiry date"}
      [] line = TotalEnquiriesLine -> {"enquiries"}
      [] OTHER -> {}

loanKeywords ==
    {"loan", "credit card", "card", "housing finance", "hfl", "mortgage", "overdraft", "od",
     "auto loan", "vehicle loan", "personal loan", "home loan", "lap"}

\* The rough classification of a loan line.
parserType(line) ==
    IF "home loan" \in Mentions(line) THEN "Home Loan"
    ELSE IF "personal loan" \in Mentions(line) THEN "Personal Loan"
    ELSE IF {"credit card", "card"} \cap Mentions(line) # {} THEN "Credit Card"
    ELSE IF {"overdraft", "od"} \cap Mentions(line) # {} THEN "Overdraft"
    ELSE IF {"vehicle", "auto"} \cap Mentions(line) # {} THEN "Auto / Vehicle Loan"
    ELSE "Other"

\* The keys of statusKeywords, in order, and their values.
statusKeywords ==
    <<[key |-> "closed", value |-> "Closed"], [key |-> "active", value |-> "Active"],
      [key |-> "open", value |-> "Active"], [key |-> "settled", value |-> "Settled"],
      [key |-> "written off", value |-> "Written Off"]>>

\* The status found in line i and the line after it: the value of the first key
\* of statusKeywords the two lines contain, "Unknown" when they contain none.
parserStatus(lines, i) ==
    LET windowText == Mentions(lines[i]) \cup
                      (IF i + 1 \in DOMAIN lines THEN Mentions(lines[i + 1]) ELSE {})
        hits == {k \in DOMAIN statusKeywords : statusKeywords[k].key \in windowText}
    IN  IF hits = {} THEN "Unknown"
        ELSE statusKeywords[CHOOSE k \in hits : \A j \in hits : k <= j].value

\* The loans pushed for the lines up to line n.
RECURSIVE parserLoans(_, _)
parserLoans(lines, n) ==
    IF n = 0 THEN <<>>
    ELSE IF Mentions(lines[n]) \cap loanKeywords = {} THEN parserLoans(lines, n - 1)
    ELSE Append(parserLoans(lines, n - 1),
                Loan(parserType(lines[n]), parserStatus(lines, n), lines[n]))

\* The number of lines that match /enquiry date|enquiry amount|enquiries/i.
parserEnquiryCount(lines) ==
    Cardinality({i \in DOMAIN lines :
                    Mentions(lines[i]) \cap {"enquiry date", "enquiry amount", "enquiries"} # {}})

\* The loans and the enquiry count of the record parseBureauReport returns.
parseBureauReportLines(lines) ==
    [loans |-> uniqueLoans(parserLoans(lines, Len(lines))),
     enquiryCount |-> parserEnquiryCount(lines)]

(***************************************************************************)
(* The calls of the helper functions on their own.  A call is made by the  *)
(* code of one variant (the file that holds the function), on an argument  *)
(* from the sample sets below.                                             *)
(***************************************************************************)
MaxAmountLen == 3
MaxTextLen == 4
MaxLoans == 3
MaxRows == 2
MaxTokens == 3
MaxDigits == 2
MaxLines == 3

\* The sequences over A of length at most n.
Strings(A, n) == UNION {[1..k -> A] : k \in 0..n}

\* The variants whose file holds a parseAmount.
AmountVariants == Variants \ {"part0_14", "part3_146"}

IndianAmounts ==
    {<<"7", ",", "5", "0", ",", "0", "0", "0">>,
     <<"1", "2", ",", "3", "4", ",", "5", "6", "7">>}

AmountInputs ==
    {JsNull, JsUndef, JsNum(0), JsNum(7), JsNum(-5)} \cup
    {JsStr(x) : x \in Strings({"7", "0", ",", "-", "a", " "}, MaxAmountLen) \cup IndianAmounts}

LoanInputs ==
    Strings({Loan("Home Loan", st, ln) : st \in {"Active", "Closed"},
                                        ln \in {"HDFC Home Loan", "SBI Home Loan"}},
            MaxLoans)

\* The reports: an optional summary section with up to MaxRows rows, closed by
\* the details section or by nothing, and an optional enquiries section.
SummarySections ==
    {<<"EXPERIAN CREDIT REPORT", SummaryMarker, HeaderLine>> \o rows \o tail :
        rows \in Strings({RowHome, RowHomeAgain, RowCard, RowTotal, RowShort}, MaxRows),
        tail \in {<<>>, <<DetailsMarker, RowCard>>}}

\* Summary sections whose table has an Amount Overdue column.
OverdueSections ==
    {<<SummaryMarker, OverdueHeaderLine>> \o rows \o tail :
        rows \in Strings({RowOverdue, RowPaid, RowNoAmounts, RowTotalUpper}, MaxRows),
        tail \in {<<>>, <<DetailsMarker, RowOverdue>>}}

\* Enquiries sections: one row; one row, the line of the total and a row below
\* it; one row, the end of the report and a line below it.
EnquirySections ==
    {<<>>,
     <<EnquiriesMarker, EnquiryHeaderLine, EnquiryRow>>,
     <<EnquiriesMarker, EnquiryHeaderLine, EnquiryRow, TotalEnquiriesLine, EnquiryRowLater>>,
     <<EnquiriesMarker, EnquiryHeaderLine, EnquiryRow, EndOfReportMarker, EnquiryRowLater>>}

ReportInputs ==
    {sum \o enq : sum \in {<<>>} \cup SummarySections \cup OverdueSections,
                  enq \in EnquirySections}

ParserLineInputs ==
    Strings({LineHome, LinePersonal, LineWrittenOff, LineCard, LineEnquiryDate,
             TotalEnquiriesLine}, MaxLines)

SliceInputs ==
    {[text |-> t, startMarker |-> st, endMarkers |-> ems] :
        t \in Strings({"s", "S", "e", "f", "x"}, MaxTextLen),
        st \in {<<"s">>, <<"S", "x">>},
        ems \in {<<>>, << <<"f">>, <<"E">> >>, << <<"f", "x">>, <<"e">> >>}}

PhraseInputs ==
    Strings({Phrase("experian", 750), Phrase("bureau", 680), Phrase("bureau", 150),
             Phrase("named", 450), Phrase("credit", 680), Phrase("num", 450),
             Phrase("num", 150), Phrase("word", 0)}, MaxTokens)

\* A tenure text: digits, a gap and a unit; and texts without a digit.
TenureText(a) == a.digits \o a.gap \o a.unit

TenureUnits ==
    {<<>>, <<"y", "e", "a", "r">>, <<"y", "e", "a", "r", "s">>, <<"Y", "e", "a", "r", "s">>,
     <<"m", "o", "n", "t", "h">>, <<"m", "o", "n", "t", "h", "s">>, <<"m">>, <<"m", "o">>}

TenureInputs ==
    {[digits |-> d, gap |-> g, unit |-> u] :
        d \in Strings({"0", "3", "6"}, MaxDigits),
        g \in {<<>>, <<" ">>},
        u \in TenureUnits \cup {<<"d", "a", "y", "s">>}}

Calls ==
    {[v |-> v, fn |-> "parseAmount", arg |-> x] : v \in AmountVariants, x \in AmountInputs}
    \cup {[v |-> "part0_14", fn |-> "uniqueLoans", arg |-> x] : x \in LoanInputs}
    \cup {[v |-> "part2_304", fn |-> "ruleBased", arg |-> x] : x \in ReportInputs}
    \cup {[v |-> "part0_14", fn |-> "parseBureauReport", arg |-> x] : x \in ParserLineInputs}
    \cup {[v |-> "part2_304", fn |-> "sliceBetween", arg |-> x] : x \in SliceInputs}
    \cup {[v |-> v, fn |-> "score", arg |-> x] : v \in {"part2_304", "part0_14"},
                                                 x \in PhraseInputs}
    \cup {[v |-> v, fn |-> "parseTenureToMonths", arg |-> x] :
            v \in {"server_839", "part3_1250"}, x \in TenureInputs \cup {JsNull}}

InitFn ==
    /\ InitOver({})
    /\ \E c \in Calls : variant = c.v /\ fn = c.fn /\ arg = c.arg
    /\ ret = <<>>

\* The call returns v.
Returns(v) ==
    /\ ret = <<>>
    /\ ret' = <<v>>
    /\ UNCHANGED <<variant, pc, filePath, extractedText, ai, responses, escaped, log, inp,
                   aiReturned, fn, arg>>

CallParseAmount == fn = "parseAmount" /\ Returns(parseAmount(variant, arg))

CallUniqueLoans == fn = "uniqueLoans" /\ Returns(uniqueLoans(arg))

CallRuleBased == fn = "ruleBased" /\ Returns(RuleBasedTables(arg))

CallParseBureauReport ==
    fn = "parseBureauReport" /\ Returns(parseBureauReportLines(arg))

CallSliceBetween ==
    fn = "sliceBetween" /\ Returns(sliceBetween(arg.text, arg.startMarker, arg.endMarkers))

CallScore ==
    fn = "score" /\ Returns(IF variant = "part0_14" THEN parserScore(arg)
                            ELSE JsNum(extractScoreTokens(arg)))

CallParseTenureToMonths ==
    fn = "parseTenureToMonths"
        /\ Returns(parseTenureToMonths(IF arg = JsNull THEN JsNull ELSE JsStr(TenureText(arg))))

NextFn ==
    \/ CallParseAmount
    \/ CallUniqueLoans
    \/ CallRuleBased
    \/ CallParseBureauReport
    \/ CallSliceBetween
    \/ CallScore
    \/ CallParseTenureToMonths

SpecFn == InitFn /\ [][NextFn]_vars

(***************************************************************************)
(* Vocabulary of the claims about the helper functions.                    *)
(***************************************************************************)
\* The call of f has returned.
Returned1(f) == fn = f /\ ret # <<>>

\* No two entries of loans have the same line.
NoDuplicateLine(loans) == \A i, j \in DOMAIN loans : loans[i].line = loans[j].line => i = j

\* The entries of loans whose line occurs at no earlier position, in order.
FirstOccurrences(loans) ==
    LET Keep(i) == \A j \in 1..(i - 1) : loans[j].line # loans[i].line
        F[i \in 0..Len(loans)] ==
            IF i = 0 THEN <<>> ELSE IF Keep(i) THEN Append(F[i - 1], loans[i]) ELSE F[i - 1]
    IN  F[Len(loans)]

\* The digits of a string, as a number.
DigitsValue(s) == DigitsToNat(SelectSeq(s, LAMBDA c : c \in DigitChars))

\* A number written with grouping commas: digits and commas, a digit first.
IsGrouped(s) == s # <<>> /\ s[1] \in DigitChars /\ \A i \in DOMAIN s : s[i] \in DigitChars \cup {","}

(***************************************************************************)
(* C12.  The loans of a result hold no two entries with the same line: of  *)
(* each line the first entry is kept, in the order of the input.           *)
(***************************************************************************)
C12_LoansAreDeduplicated ==
    /\ Returned1("uniqueLoans")
          => NoDuplicateLine(ret[1]) /\ ret[1] = FirstOccurrences(arg)
    /\ Returned1("ruleBased") => NoDuplicateLine(ret[1].loans)

(***************************************************************************)
(* C13.  parseAmount returns a finite number >= 0 for every input.         *)
(***************************************************************************)
C13_AmountIsNonNegative == Returned1("parseAmount") => ret[1] >= 0

(***************************************************************************)
(* C14.  parseAmount drops the commas of a grouped amount and returns its  *)
(* full value: parseAmount("7,50,000") = 750000.                           *)
(***************************************************************************)
C14_CommasAreDiscarded ==
    (Returned1("parseAmount") /\ arg.k = "str" /\ IsGrouped(arg.s))
        => ret[1] = DigitsValue(arg.s)

(***************************************************************************)
(* C15.  The score of a result is null or a number in [300, 900], and it   *)
(* is null when the text has no number in [300, 900].                      *)
(***************************************************************************)
HasNumberInRange(toks) ==
    \E i \in DOMAIN toks : toks[i].k # "word" /\ toks[i].n >= ScoreMin /\ toks[i].n <= ScoreMax

C15_ScoreNullOrInRange ==
    Returned1("score")
        => /\ \/ ret[1] = JsNull
              \/ ret[1].k = "num" /\ ret[1].n >= ScoreMin /\ ret[1].n <= ScoreMax
           /\ ~HasNumberInRange(arg) => ret[1] = JsNull

(***************************************************************************)
(* C16.  As stated: a text that contains "Experian Credit Score 750" gets  *)
(* the score 750, whatever stands before or after the phrase.              *)
(***************************************************************************)
HasExperian750(toks) == \E i \in DOMAIN toks : toks[i] = Phrase("experian", 750)

Experian750First(toks) ==
    \E i \in DOMAIN toks :
        /\ toks[i] = Phrase("experian", 750)
        /\ \A j \in 1..(i - 1) : toks[j].k \in {"word", "num"}

OccursAt(text, w, i) ==
    /\ i >= 1 /\ i + Len(w) - 1 <= Len(text)
    /\ LowerAll(SubSeq(text, i, i + Len(w) - 1)) = LowerAll(w)

Least(S) == CHOOSE i \in S : \A j \in S : i <= j

StartsIn(text, w) == {i \in DOMAIN text : OccursAt(text, w, i)}

\* The positions behind the start marker where an end marker occurs.
EndsBehind(a) ==
    LET from == Least(StartsIn(a.text, a.startMarker)) + Len(a.startMarker)
    IN  {i \in from..Len(a.text) :
            \E k \in DOMAIN a.endMarkers : OccursAt(a.text, a.endMarkers[k], i)}

Reverse(s) == [i \in DOMAIN s |-> s[Len(s) + 1 - i]]

C17_SliceToEarliestEnd ==
    (Returned1("sliceBetween") /\ StartsIn(arg.text, arg.startMarker) # {})
        => /\ ret[1] = SubSeq(arg.text, Least(StartsIn(arg.text, arg.startMarker)),
                              IF EndsBehind(arg) = {} THEN Len(arg.text)
                              ELSE Least(EndsBehind(arg)) - 1)
           /\ ret[1] = sliceBetween(arg.text, arg.startMarker, Reverse(arg.endMarkers))

\* Two end markers occur behind the start marker, the one listed second first in
\* the text, and the call has returned the text up to that one.
C17_Witness ==
    /\ Returned1("sliceBetween")
    /\ StartsIn(arg.text, arg.startMarker) # {}
    /\ Len(arg.endMarkers) = 2
    /\ \E i, j \in EndsBehind(arg) :
          /\ i < j /\ i = Least(EndsBehind(arg))
          /\ OccursAt(arg.text, arg.endMarkers[2], i)
          /\ ~OccursAt(arg.text, arg.endMarkers[1], i)
          /\ OccursAt(arg.text, arg.endMarkers[1], j)
    /\ Len(ret[1]) < Len(arg.text)

(***************************************************************************)
(* C18.  For a text without the start marker sliceBetween returns the      *)
(* empty string; a report without the summary section gives no loans and a *)
(* report without the enquiries section no enquiries, and the other parts  *)
(* of the result are still built.                                          *)
(***************************************************************************)
HasLine(text, l) == \E i \in DOMAIN text : text[i] = l

C18_MissingSectionIsEmpty ==
    /\ (Returned1("sliceBetween") /\ StartsIn(arg.text, arg.startMarker) = {})
          => ret[1] = <<>>
    /\ (Returned1("ruleBased") /\ ~HasLine(arg, SummaryMarker))
          => ret[1].loans = <<>> /\ ret[1].dpd.clean
    /\ (Returned1("ruleBased") /\ ~HasLine(arg, EnquiriesMarker))
          => ret[1].enquiries = <<>> /\ ret[1].enquiryCount = 0

\* A report without the summary section but with an enquiries section has been
\* parsed: no loans, and the enquiry is there.
C18_Witness ==
    /\ Returned1("ruleBased")
    /\ ~HasLine(arg, SummaryMarker) /\ HasLine(arg, EnquiriesMarker)
    /\ ret[1].loans = <<>>
    /\ ret[1].enquiryCount = 1

(***************************************************************************)
(* C19.  Under the header Lender, Account Type, Account Status, Sanction   *)
(* Amt / Highest Credit, Current Balance every data row of five cells (a   *)
(* row above the Total line or the end of the section) gives one loan,     *)
(* with the row's second cell as type, its third as status, and the values *)
(* of its fourth and fifth cells as sanctionAmount and currentBalance.     *)
(***************************************************************************)
\* The lines between the header and the line that ends the table.
TableRows(text) ==
    LET h == Least({i \in DOMAIN text : text[i] = HeaderLine})
        stops == {i \in (h + 1)..Len(text) :
                     text[i] \in {RowTotal, DetailsMarker, EnquiriesMarker}}
    IN  SubSeq(text, h + 1, IF stops = {} THEN Len(text) ELSE Least(stops) - 1)

ExpectedLoans(text) ==
    LET rows == SelectSeq(TableRows(text), LAMBDA l : Len(Cells(l)) = 5)
    IN  [i \in DOMAIN rows |->
            [type |-> Cells(rows[i])[2], status |-> Cells(rows[i])[3],
             sanctionAmount |-> DigitsValue(Cells(rows[i])[4]),
             currentBalance |-> DigitsValue(Cells(rows[i])[5])]]

LoanView(l) ==
    [type |-> l.type, status |-> l.status, sanctionAmount |-> l.details.sanctionAmount,
     currentBalance |-> l.details.currentBalance]

C19_RowsBecomeLoans ==
    (Returned1("ruleBased") /\ HasLine(arg, HeaderLine))
        => [i \in DOMAIN ret[1].loans |-> LoanView(ret[1].loans[i])] = ExpectedLoans(arg)

\* The row "HDFC Bank, Home Loan, Active, 7,50,000, 3,20,000" has been parsed,
\* as the second row of its table.
C19_Witness ==
    /\ Returned1("ruleBased")
    /\ Len(ret[1].loans) = 2
    /\ LoanView(ret[1].loans[2]) =
          [type |-> <<"Home Loan">>, status |-> <<"Active">>,
           sanctionAmount |-> 750000, currentBalance |-> 320000]

(***************************************************************************)
(* C20.  parseTenureToMonths gives 12 * n for "<n> year(s)", n for         *)
(* "<n> month(s)", "<n> m" and "<n> mo" and for the bare "<n>", and null   *)
(* for null, for the empty string and for a string without a digit.        *)
(***************************************************************************)
YearForms == {<<"y", "e", "a", "r">>, <<"y", "e", "a", "r", "s">>, <<"Y", "e", "a", "r", "s">>}

MonthForms == {<<"m", "o", "n", "t", "h">>, <<"m", "o", "n", "t", "h", "s">>, <<"m">>, <<"m", "o">>}

C20_TenureInMonths ==
    Returned1("parseTenureToMonths")
        => IF arg = JsNull THEN ret[1] = JsNull
           ELSE IF arg.digits = <<>> THEN ret[1] = JsNull
           ELSE IF arg.unit \in YearForms THEN ret[1] = JsNum(12 * DigitsToNat(arg.digits))
           ELSE IF arg.unit \in MonthForms \/ arg.unit = <<>>
           THEN ret[1] = JsNum(DigitsToNat(arg.digits))
           ELSE TRUE

\* "3 years" has been read as 36.
C20_Witness ==
    /\ Returned1("parseTenureToMonths")
    /\ arg = [digits |-> <<"3">>, gap |-> <<" ">>, unit |-> <<"y", "e", "a", "r", "s">>]
    /\ ret[1] = JsNum(36)

(***************************************************************************)
(* C21-C30.                                                                *)
(***************************************************************************)

\* The loans of a list that owe an overdue amount, counted one by one.
OverdueCount(loans) ==
    Cardinality({i \in DOMAIN loans : loans[i].details.amountOverdue > 0})

\* C21: the rule-based DPD summary is "0 - Clean" exactly when no extracted loan
\* has an amount overdue above zero, and otherwise it is "Overdues in N
\* account(s)" with N the number of extracted loans whose amount overdue is
\* above zero.
C21_DpdCountsOverdueLoans ==
    Returned1("ruleBased")
        => /\ ret[1].dpd.clean <=> OverdueCount(ret[1].loans) = 0
           /\ ~ret[1].dpd.clean => ret[1].dpd.n = OverdueCount(ret[1].loans)

\* Two loans were extracted, one of them with an amount overdue, and the summary
\* reads "Overdues in 1 account(s)".
C21_Witness ==
    /\ Returned1("ruleBased")
    /\ Len(ret[1].loans) = 2
    /\ OverdueCount(ret[1].loans) = 1
    /\ ret[1].dpd = [clean |-> FALSE, n |-> 1]

\* The five status labels.
StatusLabels == {"Active", "Closed", "Settled", "WrittenOff", "Unknown"}

\* C22: every loan produced has a status that is one of Active, Closed, Settled,
\* WrittenOff and Unknown, whether it comes from the table parser of the
\* rule-based handler or from the line parser.
C22_StatusIsOneOfFive ==
    /\ Returned1("ruleBased")
          => \A i \in DOMAIN ret[1].loans : \E st \in StatusLabels : ret[1].loans[i].status = <<st>>
    /\ Returned1("parseBureauReport")
          => \A i \in DOMAIN ret[1].loans : ret[1].loans[i].status \in StatusLabels

\* typeof x === "number", NaN apart.
IsNumber(x) == x.k = "num"

\* The record has every declared field: the score, the enquiry count and the
\* four totals are numbers, the DPD summary is there, loans and enquiries are
\* lists, and every loan has details whose sanction amount is a number.
IsComplete(res) ==
    /\ IsNumber(res.score)
    /\ IsNumber(res.enquiryCount)
    /\ res.dpd # ""
    /\ res.totals # <<>>
    /\ \A f \in {"loanSanctioned", "loanOutstanding", "cardLimit", "cardOutstanding"} :
           IsNumber(res.totals[1][f])
    /\ res.loans # <<>>
    /\ res.enquiries # <<>>
    /\ \A i \in DOMAIN res.loans[1] :
           /\ res.loans[1][i].details # <<>>
           /\ IsNumber(res.loans[1][i].details[1].sanctionAmount)

\* C23: the record of every success response has all declared fields, with
\* their defaults where the interpreter's reply or the text did not give them.
C23_SuccessResultIsComplete == \A r \in Req : Succeeded(r) => IsComplete(Returned(r))

\* C24: the enquiry count is the number next to the phrase "total enquiries"
\* when the text has that phrase; otherwise it is the number of rows read from
\* the enquiries table, and 0 when there is no table.  The phrase of the sample
\* texts is the line "Total Enquiries: 5".
C24_EnquiryCountFromPhrase ==
    /\ Returned1("ruleBased")
          => ret[1].enquiryCount = IF HasLine(arg, TotalEnquiriesLine) THEN 5
                                   ELSE IF HasLine(arg, EnquiryHeaderLine)
                                   THEN Len(ret[1].enquiries) ELSE 0
    /\ (Returned1("parseBureauReport") /\ HasLine(arg, TotalEnquiriesLine))
          => ret[1].enquiryCount = 5

Terminators ==
    {RowTotal, RowTotalUpper, TotalEnquiriesLine, DetailsMarker, EnquiriesMarker,
     SummaryEnquiriesMarker, EndOfReportMarker}

\* The lines of text below the first of the header lines hs and above the first
\* terminator below that header; none when text has no such header.
RowsAbove(text, hs) ==
    LET heads == {i \in DOMAIN text : text[i] \in hs}
        h == Least(heads)
        stops == {i \in (h + 1)..Len(text) : text[i] \in Terminators}
    IN  IF heads = {} THEN <<>>
        ELSE SubSeq(text, h + 1, IF stops = {} THEN Len(text) ELSE Least(stops) - 1)

\* C26: once a line below the header starts with "total", in any case, or is the
\* heading of the next section, neither it nor any line below it yields a loan
\* or an enquiry: every loan and every enquiry comes from a line above the first
\* such line, and there are no more of them than such lines.
C26_NothingBelowTerminator ==
    Returned1("ruleBased")
        => LET loanRows == RowsAbove(arg, {HeaderLine, OverdueHeaderLine})
               enquiryRows == RowsAbove(arg, {EnquiryHeaderLine})
           IN  /\ Len(ret[1].loans) <= Len(loanRows)
               /\ \A i \in DOMAIN ret[1].loans :
                      \E j \in DOMAIN loanRows :
                         /\ Len(Cells(loanRows[j])) >= 3
                         /\ SubSeq(Cells(loanRows[j]), 1, 3) = ret[1].loans[i].line
               /\ Len(ret[1].enquiries) <= Len(enquiryRows)
               /\ \A i \in DOMAIN ret[1].enquiries :
                      \E j \in DOMAIN enquiryRows :
                         /\ Cells(enquiryRows[j])[1] = ret[1].enquiries[i].institution
                         /\ Cells(enquiryRows[j])[3] = ret[1].enquiries[i].date

\* A report with a row below the table's total, a row below the heading of the
\* details section and an enquiry row below the line of the enquiries' total
\* has been parsed: one loan and one enquiry have been extracted.
C26_Witness ==
    /\ Returned1("ruleBased")
    /\ arg = <<"EXPERIAN CREDIT REPORT", SummaryMarker, HeaderLine, RowHome, RowTotal,
               DetailsMarker, RowCard, EnquiriesMarker, EnquiryHeaderLine, EnquiryRow,
               TotalEnquiriesLine, EnquiryRowLater>>
    /\ Len(ret[1].loans) = 1
    /\ Len(ret[1].enquiries) = 1

\* A row has a usable field: a lender (its first cell), an account type (its
\* second cell) or an amount (a cell from the fourth on).
HasUsableField(line) == Len(Cells(line)) >= 1

\* A loans row has an amount cell: a cell in the column of the sanction amount,
\* of the current balance or of the amount overdue, which the sample headers
\* have from the fourth place on.
HasAmountCell(line) == Len(Cells(line)) >= 4

\* The first three cells of each of the rows.
LinesOf(rows) == [i \in DOMAIN rows |-> SubSeq(Cells(rows[i]), 1, 3)]

\* C27, as claimed: a data row is dropped only when it has no usable field (no
\* lender, no account type, no amount); every row above the end of the table
\* with a usable field becomes an entity.
C27_DroppedIffNothingUsable ==
    Returned1("ruleBased")
        => /\ Len(ret[1].loans)
                = Len(SelectSeq(RowsAbove(arg, {HeaderLine, OverdueHeaderLine}), HasUsableField))
           /\ Len(ret[1].enquiries)
                = Len(SelectSeq(RowsAbove(arg, {EnquiryHeaderLine}), HasUsableField))

\* C27, amended: a loans row is dropped exactly when it has fewer than three
\* cells or no cell in the sanction, balance and overdue columns, whatever its
\* lender and account type; the other rows above the end of the table become
\* loans, in order, also when they stand below a dropped row; every row of the
\* enquiries table becomes an enquiry.
C27_DroppedIffNoAmount ==
    Returned1("ruleBased")
        => /\ [i \in DOMAIN ret[1].loans |-> ret[1].loans[i].line]
                = LinesOf(SelectSeq(RowsAbove(arg, {HeaderLine, OverdueHeaderLine}),
                                    HasAmountCell))
           /\ Len(ret[1].enquiries) = Len(RowsAbove(arg, {EnquiryHeaderLine}))

\* The row "Kotak Bank, Gold Loan, Active", without amounts, has been dropped
\* and the row of Axis Bank below it has become the only loan.
C27_Witness ==
    /\ Returned1("ruleBased")
    /\ arg = <<SummaryMarker, OverdueHeaderLine, RowNoAmounts, RowPaid>>
    /\ Len(ret[1].loans) = 1
    /\ ret[1].loans[1].line = << <<"Axis Bank">>, <<"Auto Loan">>, <<"Active">> >>

\* C28: every request gets exactly one response, on every path: no handler
\* sends a second body, and a handler that has ended has sent one, also when it
\* ended in the catch block or when the cleanup threw.
C28_ExactlyOneResponse ==
    \A r \in Req : /\ Len(responses[r]) <= 1
                   /\ pc[r] = "done" => Len(responses[r]) = 1

\* A request whose OCR call threw has ended in the catch block with one
\* response, a failure, and the removal of its file threw after that.
C28_Witness ==
    \E r \in Req : /\ pc[r] = "done"
                   /\ HasEvent(r, "ocr.err")
                   /\ escaped[r]
                   /\ Len(responses[r]) = 1
                   /\ ~responses[r][1].success

\* The number of calls of fs.unlinkSync the request has made.
UnlinkCount(r) == Cardinality({i \in DOMAIN log[r] : log[r][i] = "unlink"})

\* C29: once a file has been received, its removal is attempted exactly once,
\* on every path on which the handler ends.
C29_FileRemovedOnce ==
    \A r \in Req : (pc[r] = "done" /\ inp[r].hasFile = <<TRUE>>) => UnlinkCount(r) = 1

\* performOcrOnPdf has returned a text for the request.
HasOcrText(r) == inp[r].ocr # <<>> /\ inp[r].ocr[1].ok

OcrText(r) == inp[r].ocr[1].text

\* The OCR text has taken the place of the text pdf() gave.
OcrAdopted(r) ==
    /\ HasNative(r) /\ HasOcrText(r) /\ HasEvent(r, "ocr.ret")
    /\ WorkingText(r) = OcrText(r)
    /\ OcrText(r) # NativeText(r)

\* C30: the OCR text replaces the working text only when its trimmed length is
\* above 100; so a request whose OCR text was adopted never fails the
\* unreadability check, and a request fails that check only when the text
\* pdf() gave is shorter than 100 and OCR returned nothing that could be
\* adopted.
C30_OcrAdoptedOnlyAboveFloor ==
    \A r \in Req :
        /\ OcrAdopted(r) => OcrText(r).len > UnreadableFloor /\ ~HasEvent(r, "gate.fail")
        /\ (HasNative(r) /\ HasEvent(r, "gate.fail"))
              => /\ NativeText(r).len < UnreadableFloor
                 /\ ~(HasOcrText(r) /\ OcrText(r).len > UnreadableFloor)
====
